---- MODULE Spec2Model ----
(***************************************************************************)
(* A model of mjlog2json: the mjlog (binary/XML attribute) decoder's meld  *)
(* field, the tile codec, the score engine with its text grammar, the      *)
(* per-seat replay and the whole-match conversion conv_to_tenhou_json.     *)
(*                                                                         *)
(* Results of fallible functions are records with a kind:                  *)
(*   Ok(v)    the function returned Ok(v) / Some(v)                        *)
(*   Err(e)   the function returned Err(e) (None for Option: Err("None"))  *)
(*   Panic(m) the function hit panic!/unreachable and unwound              *)
(***************************************************************************)
EXTENDS Integers, Sequences, FiniteSets, TLC

VARIABLES
    \* whole-match conversion (conv_mjloggm pushes actions, then conv_to_tenhou_json)
    actions, result, pc,
    \* per-seat replay (replay_actions): the consumed slice and its locals
    r_actions, incoming, outgoing, reach_declared, last_draw, r_ret, r_pc,
    \* score engine: input, calc result, printed text, parsed text
    s_in, s_score, s_text, s_parsed, s_pc,
    \* tile codec: a byte, the red flag, the results
    t_code, t_red, t_out, t_pc,
    \* binary meld codec: the 16-bit field, its decoding, re-encoding, re-decoding,
    \* and the replay of the decoded meld
    m_field, m_meld, m_field2, m_meld2, m_replay, m_pc,
    \* text call/discard codec: the value or token given, the exported token, the decoding
    x_in, x_token, x_out, x_pc

convVars == <<actions, result, pc>>
replayVars == <<r_actions, incoming, outgoing, reach_declared, last_draw, r_ret, r_pc>>
scoreVars == <<s_in, s_score, s_text, s_parsed, s_pc>>
tileVars == <<t_code, t_red, t_out, t_pc>>
meldVars == <<m_field, m_meld, m_field2, m_meld2, m_replay, m_pc>>
textVars == <<x_in, x_token, x_out, x_pc>>
vars == <<convVars, replayVars, scoreVars, tileVars, meldVars, textVars>>

Ok(v) == [kind |-> "Ok", val |-> v]
Err(e) == [kind |-> "Err", err |-> e]
Panic(m) == [kind |-> "Panic", msg |-> m]
IsOk(r) == r.kind = "Ok"
None == [kind |-> "None"]

\* the ? operator: F continues with the value of an Ok; an Err or a panic leaves
Then(r, F(_)) == IF IsOk(r) THEN F(r.val) ELSE r

\* Idle values of the variable groups a specification does not use.
ConvIdle == actions = <<>> /\ result = None /\ pc = "idle"
ReplayIdle ==
    /\ r_actions = <<>> /\ incoming = <<>> /\ outgoing = <<>>
    /\ reach_declared = FALSE /\ last_draw = None /\ r_ret = None /\ r_pc = "idle"
ScoreIdle == s_in = None /\ s_score = None /\ s_text = <<>> /\ s_parsed = None /\ s_pc = "idle"
TileIdle == t_code = 0 /\ t_red = FALSE /\ t_out = None /\ t_pc = "idle"
MeldIdle ==
    /\ m_field = 0 /\ m_meld = None /\ m_field2 = None /\ m_meld2 = None /\ m_replay = None
    /\ m_pc = "idle"
TextIdle == x_in = None /\ x_token = None /\ x_out = None /\ x_pc = "idle"

(***************************************************************************)
(* Tile codec: tenhou-json Tile (two-digit code) and mjlog Hai (ordinal).  *)
(***************************************************************************)

\* tenhou-json/src/model.rs is_valid_tile
is_valid_tile(x) ==
    \/ (11 <= x /\ x <= 19)
    \/ (21 <= x /\ x <= 29)
    \/ (31 <= x /\ x <= 39)
    \/ (41 <= x /\ x <= 47)
    \/ (51 <= x /\ x <= 53)

\* Tile::from_u8: a Tile is modelled by its code
Tile_from_u8(x) == IF is_valid_tile(x) THEN Ok(x) ELSE Err("InvalidTileNumberError")

\* Tile::to_u8
Tile_to_u8(t) == t

\* Tile::is_red
is_red(t) == t = 51 \/ t = 52 \/ t = 53

\* Tile::to_black
to_black(t) == CASE t = 51 -> 15 [] t = 52 -> 25 [] t = 53 -> 35 [] OTHER -> t

\* Tile::to_red
to_red(t) == CASE t = 15 -> 51 [] t = 25 -> 52 [] t = 35 -> 53 [] OTHER -> t

\* Hai::is_number5
is_number5(h) ==
    LET pict_index == h \div 4
        pict_type == pict_index \div 9
        number == (pict_index % 9) + 1
    IN  pict_type <= 2 /\ number = 5

\* mjlog2json-core conv_tile_from_u8
conv_tile_from_u8(x) ==
    IF IsOk(Tile_from_u8(x)) THEN Tile_from_u8(x) ELSE Err("InvalidTileFormat")

\* conv_hai_to_tile with the red five of each suit taken at its fourth copy
conv_hai_to_tile_red_last_copy(hai, red_enable) ==
    LET hai_number == hai
        pict_order == hai_number \div 4
        pict_type == (pict_order \div 9) + 1
        pict_num == (pict_order % 9) + 1
    IN  IF red_enable /\ hai_number = 19 THEN conv_tile_from_u8(51)
        ELSE IF red_enable /\ hai_number = 55 THEN conv_tile_from_u8(52)
        ELSE IF red_enable /\ hai_number = 91 THEN conv_tile_from_u8(53)
        ELSE conv_tile_from_u8(pict_type * 10 + pict_num)

\* mjlog2json-core conv_hai_to_tile (hai is a u8; no u8 operation below overflows)
conv_hai_to_tile(hai, red_enable) ==
    LET hai_number == hai
        pict_order == hai_number \div 4
        pict_type == (pict_order \div 9) + 1
        pict_num == (pict_order % 9) + 1
    IN  IF red_enable /\ hai_number = 16 THEN conv_tile_from_u8(51)
        ELSE IF red_enable /\ hai_number = 52 THEN conv_tile_from_u8(52)
        ELSE IF red_enable /\ hai_number = 88 THEN conv_tile_from_u8(53)
        ELSE conv_tile_from_u8(pict_type * 10 + pict_num)

(***************************************************************************)
(* Binary meld codec: mjlog/src/parser.rs conv_meld_from_u16.              *)
(***************************************************************************)

\* bits lo .. lo+width-1 of m, as (m & mask) >> lo
Bits(m, lo, width) == (m \div (2 ^ lo)) % (2 ^ width)

\* mjlog Direction::from_u8 (FromPrimitive on the enum order)
Direction_from_u8(x) ==
    CASE x = 0 -> "SelfSeat" [] x = 1 -> "Shimocha" [] x = 2 -> "Toimen" [] x = 3 -> "Kamicha"

\* [T; 4]::swap(i, j) on a 4-tuple, indices from 0
swap4(s, i, j) == [k \in 1..4 |-> IF k = i + 1 THEN s[j + 1] ELSE IF k = j + 1 THEN s[i + 1] ELSE s[k]]

\* the Chii branch
meld_chii(m) ==
    LET pattern == Bits(m, 10, 6)
        called_position == pattern % 3
        min_number == (pattern \div 3) % 7
        kind == (pattern \div 3) \div 7
        offset_min == Bits(m, 3, 2)
        offset_mid == Bits(m, 5, 2)
        offset_max == Bits(m, 7, 2)
        pict_type == kind * 9 + min_number
        base == pict_type * 4
        h_min == base + offset_min
        h_mid == base + offset_mid + 4
        h_max == base + offset_max + 8
    IN  Ok([kind |-> "Chii", combination |-> <<h_min, h_mid, h_max>>,
            called_position |-> called_position])

\* the Pon / Kakan branch with the called tile read before the swap
meld_pon_kakan_called_before_swap(m, dir) ==
    LET pattern == Bits(m, 9, 7)
        unused_hai_offset == Bits(m, 5, 2)
        called_index == pattern % 3
        pict_type == pattern \div 3
        base == pict_type * 4
        initial == <<base, base + 1, base + 2, base + 3>>
        same_pict_hais == swap4(initial, 3, unused_hai_offset)
        combination == <<same_pict_hais[1], same_pict_hais[2], same_pict_hais[3]>>
        unused_hai == same_pict_hais[4]
        called_hai == initial[called_index + 1]
    IN  IF Bits(m, 4, 1) # 0
        THEN Ok([kind |-> "Kakan", dir |-> dir, combination |-> combination,
                 called |-> called_hai, added |-> unused_hai])
        ELSE Ok([kind |-> "Pon", dir |-> dir, combination |-> combination,
                 called |-> called_hai, unused |-> unused_hai])

\* the Pon / Kakan branch without the swap: the last copy is always the one left out
meld_pon_kakan_no_swap(m, dir) ==
    LET pattern == Bits(m, 9, 7)
        called_index == pattern % 3
        pict_type == pattern \div 3
        base == pict_type * 4
        same_pict_hais == <<base, base + 1, base + 2, base + 3>>
        combination == <<same_pict_hais[1], same_pict_hais[2], same_pict_hais[3]>>
        unused_hai == same_pict_hais[4]
        called_hai == same_pict_hais[called_index + 1]
    IN  IF Bits(m, 4, 1) # 0
        THEN Ok([kind |-> "Kakan", dir |-> dir, combination |-> combination,
                 called |-> called_hai, added |-> unused_hai])
        ELSE Ok([kind |-> "Pon", dir |-> dir, combination |-> combination,
                 called |-> called_hai, unused |-> unused_hai])

\* the Pon / Kakan branch
meld_pon_kakan(m, dir) ==
    LET pattern == Bits(m, 9, 7)
        unused_hai_offset == Bits(m, 5, 2)
        called_index == pattern % 3
        pict_type == pattern \div 3
        base == pict_type * 4
        same_pict_hais == swap4(<<base, base + 1, base + 2, base + 3>>, 3, unused_hai_offset)
        combination == <<same_pict_hais[1], same_pict_hais[2], same_pict_hais[3]>>
        unused_hai == same_pict_hais[4]
        called_hai == same_pict_hais[called_index + 1]
    IN  IF Bits(m, 4, 1) # 0
        THEN Ok([kind |-> "Kakan", dir |-> dir, combination |-> combination,
                 called |-> called_hai, added |-> unused_hai])
        ELSE Ok([kind |-> "Pon", dir |-> dir, combination |-> combination,
                 called |-> called_hai, unused |-> unused_hai])

\* the Daiminkan / Ankan branch
meld_kan(m, dir) ==
    LET hai == Bits(m, 8, 8)
    IN  IF dir = "SelfSeat"
        THEN Ok([kind |-> "Ankan", hai |-> hai])
        ELSE Ok([kind |-> "Daiminkan", dir |-> dir, hai |-> hai])

\* conv_meld_from_u16 with the Pon / Kakan test ahead of the Chii test
conv_meld_from_u16_pon_first(m) ==
    LET dir == Direction_from_u8(Bits(m, 0, 2))
    IN  IF Bits(m, 3, 1) # 0 \/ Bits(m, 4, 1) # 0 THEN meld_pon_kakan(m, dir)
        ELSE IF Bits(m, 2, 1) # 0 THEN meld_chii(m)
        ELSE IF Bits(m, 5, 1) # 0 THEN Err("UnexpectedPeiNuki")
        ELSE meld_kan(m, dir)

\* conv_meld_from_u16: the priority-ordered dispatch
conv_meld_from_u16(m) ==
    LET dir == Direction_from_u8(Bits(m, 0, 2))
    IN  IF Bits(m, 2, 1) # 0 THEN meld_chii(m)
        ELSE IF Bits(m, 3, 1) # 0 \/ Bits(m, 4, 1) # 0 THEN meld_pon_kakan(m, dir)
        ELSE IF Bits(m, 5, 1) # 0 THEN Err("UnexpectedPeiNuki")
        ELSE meld_kan(m, dir)

\* The inverse of the layout (spec 4.2): pattern and copy offsets are recomputed
\* from the tiles; a combination that does not fit the variant is a DomainMismatch.
\* A Chii carries no direction and can only come from the left seat (Kamicha, 3).
encode_meld_binary(meld) ==
    CASE meld.kind = "Chii" ->
            LET c == meld.combination
                p_min == c[1] \div 4
                suit == p_min \div 9
                min_rank == p_min % 9
                pattern == suit * 21 + min_rank * 3 + meld.called_position
            IN  IF /\ c[2] \div 4 = p_min + 1
                   /\ c[3] \div 4 = p_min + 2
                   /\ suit <= 2 /\ min_rank <= 6
                   /\ meld.called_position \in 0..2
                THEN Ok(pattern * 1024 + (c[3] % 4) * 128 + (c[2] % 4) * 32
                        + (c[1] % 4) * 8 + 4 + 3)
                ELSE Err("DomainMismatch")
      [] meld.kind \in {"Pon", "Kakan"} ->
            LET c == meld.combination
                extra == IF meld.kind = "Pon" THEN meld.unused ELSE meld.added
                rank_group == c[1] \div 4
                slots == {i \in 1..3 : c[i] = meld.called}
                called_slot == (CHOOSE i \in slots : TRUE) - 1
                dirbits == CASE meld.dir = "SelfSeat" -> 0 [] meld.dir = "Shimocha" -> 1
                             [] meld.dir = "Toimen" -> 2 [] meld.dir = "Kamicha" -> 3
            IN  IF /\ {c[1], c[2], c[3], extra} = {4 * rank_group + k : k \in 0..3}
                   /\ rank_group <= 33
                   /\ slots # {}
                THEN Ok((rank_group * 3 + called_slot) * 512 + (extra % 4) * 32
                        + (IF meld.kind = "Pon" THEN 8 ELSE 16) + dirbits)
                ELSE Err("DomainMismatch")
      [] meld.kind = "Daiminkan" ->
            LET dirbits == CASE meld.dir = "Shimocha" -> 1 [] meld.dir = "Toimen" -> 2
                             [] meld.dir = "Kamicha" -> 3
            IN  Ok(meld.hai * 256 + dirbits)
      [] meld.kind = "Ankan" -> Ok(meld.hai * 256)

(***************************************************************************)
(* SpecTile: a byte goes through the text codec and the binary tile codec. *)
(***************************************************************************)
U8 == 0..255

TileInit ==
    /\ t_code \in U8 /\ t_red \in BOOLEAN /\ t_out = None /\ t_pc = "input"
    /\ ConvIdle /\ ReplayIdle /\ ScoreIdle /\ MeldIdle /\ TextIdle

\* Tile::from_u8(code), then to_u8 of the tile
TileFromU8 ==
    /\ t_pc = "input"
    /\ t_out' = [text |-> Tile_from_u8(t_code),
                 back |-> IF IsOk(Tile_from_u8(t_code))
                          THEN Ok(Tile_to_u8(Tile_from_u8(t_code).val)) ELSE None]
    /\ t_pc' = "text"
    /\ UNCHANGED <<t_code, t_red, convVars, replayVars, scoreVars, meldVars, textVars>>

\* conv_hai_to_tile(Hai(code), red), then the tile through to_u8 / from_u8
TileFromHai ==
    /\ t_pc = "input"
    /\ t_out' = [hai |-> conv_hai_to_tile(t_code, t_red),
                 back |-> IF IsOk(conv_hai_to_tile(t_code, t_red))
                          THEN Tile_from_u8(Tile_to_u8(conv_hai_to_tile(t_code, t_red).val))
                          ELSE None]
    /\ t_pc' = "hai"
    /\ UNCHANGED <<t_code, t_red, convVars, replayVars, scoreVars, meldVars, textVars>>

TileNext == TileFromU8 \/ TileFromHai

SpecTile == TileInit /\ [][TileNext]_vars

(***************************************************************************)
(* SpecMeld: a 16-bit field is decoded, re-encoded and decoded again; the   *)
(* decoded meld is also replayed (MeldReplay, after replay_actions below).  *)
(***************************************************************************)
U16 == 0..65535

MeldInit ==
    /\ m_field \in U16 /\ m_meld = None /\ m_field2 = None /\ m_meld2 = None /\ m_replay = None
    /\ m_pc = "input"
    /\ ConvIdle /\ ReplayIdle /\ ScoreIdle /\ TileIdle /\ TextIdle

MeldDecode ==
    /\ m_pc = "input"
    /\ m_meld' = conv_meld_from_u16(m_field)
    /\ m_pc' = "decoded"
    /\ UNCHANGED <<m_field, m_field2, m_meld2, m_replay, convVars, replayVars, scoreVars, tileVars, textVars>>

MeldEncode ==
    /\ m_pc = "decoded" /\ IsOk(m_meld)
    /\ m_field2' = encode_meld_binary(m_meld.val)
    /\ m_pc' = "encoded"
    /\ UNCHANGED <<m_field, m_meld, m_meld2, m_replay, convVars, replayVars, scoreVars, tileVars, textVars>>

MeldDecodeAgain ==
    /\ m_pc = "encoded" /\ IsOk(m_field2)
    /\ m_meld2' = conv_meld_from_u16(m_field2.val)
    /\ m_pc' = "redecoded"
    /\ UNCHANGED <<m_field, m_meld, m_field2, m_replay, convVars, replayVars, scoreVars, tileVars, textVars>>

(***************************************************************************)
(* Properties of the tile codec and of the binary meld codec.              *)
(***************************************************************************)

ValidTextCodes == (11..19) \cup (21..29) \cup (31..39) \cup (41..47) \cup (51..53)

\* the code the claim gives for ordinal h: suit*10+rank of ordinal h/4, or the
\* dedicated red code for the ordinals 16/52/88 when red is enabled
ExpectedTileOfHai(h, red) ==
    IF red /\ h = 16 THEN 51
    ELSE IF red /\ h = 52 THEN 52
    ELSE IF red /\ h = 88 THEN 53
    ELSE (((h \div 4) \div 9) + 1) * 10 + (((h \div 4) % 9) + 1)

\* what the claim says of one byte through the text codec and the tile codec
TileCodecCase ==
    /\ t_pc = "text" =>
          IF t_code \in ValidTextCodes
          THEN /\ IsOk(t_out.text) /\ t_out.text.val = t_code
               /\ IsOk(t_out.back) /\ t_out.back.val = t_code
          ELSE t_out.text.kind = "Err"
    /\ (t_pc = "hai" /\ t_code \in 0..135) =>
          /\ IsOk(t_out.hai) /\ t_out.hai.val = ExpectedTileOfHai(t_code, t_red)
          /\ t_out.hai.val \in ValidTextCodes
          /\ IsOk(t_out.back) /\ t_out.back.val = t_out.hai.val

\* the bytes Tile::from_u8 accepts
AcceptedTextCodes == {c \in U8 : IsOk(Tile_from_u8(c))}

\* C9 as stated: each of the 39 valid text codes c (11-19, 21-29, 31-39, 41-47,
\* 51-53) is accepted by Tile::from_u8 and to_u8 gives c back, every other byte is
\* rejected; each of the 136 ordinals h converts to the tile suit*10+rank of h/4
\* (51/52/53 for 16/52/88 with red enabled), and that tile goes through
\* to_u8 / from_u8 unchanged.
C9_AsStated ==
    /\ t_pc = "text" => (AcceptedTextCodes = ValidTextCodes /\ Cardinality(AcceptedTextCodes) = 39)
    /\ TileCodecCase

\* C9 amended: the same, the valid text codes being 37 (9 + 9 + 9 + 7 + 3).
C9_TileCodecRoundTrip ==
    /\ t_pc = "text" => (AcceptedTextCodes = ValidTextCodes /\ Cardinality(AcceptedTextCodes) = 37)
    /\ TileCodecCase

\* a red five ordinal was converted with red enabled and came back as its red code
C9_Witness ==
    /\ t_pc = "hai" /\ t_code = 88 /\ t_red
    /\ IsOk(t_out.hai) /\ t_out.hai.val = 53 /\ IsOk(t_out.back)

\* C20 as stated: converting a tile ordinal outside 0..135 never yields a
\* Tile; conv_hai_to_tile fails with InvalidTileFormat for every ordinal 136..255
C20_AsStated ==
    (t_pc = "hai" /\ t_code \in 136..255) => t_out.hai = Err("InvalidTileFormat")

\* a field of the domain the claim names
ValidMeldField(m) ==
    IF Bits(m, 2, 1) # 0 THEN Bits(m, 10, 6) < 63
    ELSE IF Bits(m, 3, 1) # 0 \/ Bits(m, 4, 1) # 0 THEN Bits(m, 9, 7) < 102
    ELSE Bits(m, 5, 1) = 0 /\ Bits(m, 8, 8) < 136

\* C10: for every valid 16-bit meld field, the decoded meld is encoded by the
\* inverse of the layout and the encoding decodes to the same meld (variant,
\* physical copies, called slot, source direction).
C10_MeldRoundTrip ==
    ValidMeldField(m_field) =>
        /\ m_pc = "decoded" => IsOk(m_meld)
        /\ m_pc = "encoded" => IsOk(m_field2)
        /\ m_pc = "redecoded" => (IsOk(m_meld2) /\ m_meld2.val = m_meld.val)

\* a Kakan whose added tile is the red five of man was decoded, encoded to a
\* field that differs from the input in its unused bits, and decoded again
C10_Witness ==
    /\ m_pc = "redecoded" /\ ValidMeldField(m_field)
    /\ m_meld.val.kind = "Kakan" /\ m_meld.val.added = 16
    /\ m_field2.val # m_field

\* bit n of the field
FieldBit(n) == (m_field \div (2 ^ n)) % 2

\* C17: the decoder dispatches by the first matching test: bit 2 gives Chii
\* whatever bits 3-5 are; else bit 3 or bit 4 gives Pon, or Kakan when bit 4
\* is set; else bit 5 fails with the unsupported-call error and gives no
\* meld; else Kan, Ankan when the direction bits are 0 and Daiminkan with
\* that direction otherwise.
C17_Dispatch ==
    m_pc # "input" =>
        IF FieldBit(2) = 1 THEN IsOk(m_meld) /\ m_meld.val.kind = "Chii"
        ELSE IF FieldBit(3) = 1 \/ FieldBit(4) = 1
        THEN IsOk(m_meld) /\ m_meld.val.kind = (IF FieldBit(4) = 1 THEN "Kakan" ELSE "Pon")
        ELSE IF FieldBit(5) = 1 THEN m_meld = Err("UnexpectedPeiNuki")
        ELSE /\ IsOk(m_meld)
             /\ IF m_field % 4 = 0 THEN m_meld.val.kind = "Ankan"
                ELSE /\ m_meld.val.kind = "Daiminkan"
                     /\ m_meld.val.dir = (CASE m_field % 4 = 1 -> "Shimocha"
                                            [] m_field % 4 = 2 -> "Toimen"
                                            [] m_field % 4 = 3 -> "Kamicha")

\* a field with bits 2, 3, 4 and 5 all set was decoded to a Chii
C17_Witness ==
    /\ m_pc = "decoded" /\ m_field = 60
    /\ IsOk(m_meld) /\ m_meld.val.kind = "Chii"

\* the tile a Pon leaves out or a Kakan adds
LeftOutTile(meld) == IF meld.kind = "Kakan" THEN meld.added ELSE meld.unused

\* C18: for every field decoded to Pon or Kakan, the three combination tiles
\* and the unused / added tile are the four copies base..base+3 of one rank,
\* the unused / added tile is the copy selected by bits 5-6 and is not in the
\* combination, and the called tile is the combination's slot pattern mod 3.
C18_PonKakanCopies ==
    (m_pc # "input" /\ IsOk(m_meld) /\ m_meld.val.kind \in {"Pon", "Kakan"}) =>
        /\ {m_meld.val.combination[1], m_meld.val.combination[2], m_meld.val.combination[3],
            LeftOutTile(m_meld.val)}
              = (4 * ((m_field \div 512) \div 3)) .. (4 * ((m_field \div 512) \div 3) + 3)
        /\ LeftOutTile(m_meld.val) = 4 * ((m_field \div 512) \div 3) + ((m_field \div 32) % 4)
        /\ \A i \in 1..3 : m_meld.val.combination[i] # LeftOutTile(m_meld.val)
        /\ m_meld.val.called = m_meld.val.combination[((m_field \div 512) % 3) + 1]

\* a Pon of 5m from Kamicha whose second copy is left out and whose slot 1 is called
C18_Witness ==
    /\ m_pc = "decoded" /\ m_field = 13 * 512 + 32 + 8 + 3
    /\ m_meld = Ok([kind |-> "Pon", dir |-> "Kamicha", combination |-> <<16, 19, 18>>,
                    called |-> 19, unused |-> 17])

\* suit (0 man, 1 pin, 2 sou, 3 honor) and rank (0-based) of a tile ordinal
SuitOfHai(h) == (h \div 4) \div 9
RankOfHai(h) == (h \div 4) % 9

\* C19 as stated: for every field with bit 2 set the decoder returns a Chii of
\* three tiles of one numbered suit with consecutive ascending ranks, each an
\* ordinal 0..135, and a called position 0..2, or rejects the field; it never
\* returns a Chii of honor tiles or of tiles of different suits
C19_AsStated ==
    (m_pc # "input" /\ FieldBit(2) = 1) =>
        \/ m_meld.kind = "Err"
        \/ /\ IsOk(m_meld) /\ m_meld.val.kind = "Chii"
           /\ \A i \in 1..3 : m_meld.val.combination[i] \in 0..135
           /\ SuitOfHai(m_meld.val.combination[1]) \in 0..2
           /\ \A i \in 2..3 :
                 /\ SuitOfHai(m_meld.val.combination[i]) = SuitOfHai(m_meld.val.combination[1])
                 /\ RankOfHai(m_meld.val.combination[i]) = RankOfHai(m_meld.val.combination[1]) + (i - 1)
           /\ m_meld.val.called_position \in 0..2

(***************************************************************************)
(* Score engine: tenhou-json/src/calc.rs and score.rs.                     *)
(* i32 arithmetic wraps modulo 2^32 (a release build; a debug build panics *)
(* where a value below leaves the i32 range).                              *)
(***************************************************************************)

I32Min == -2147483647 - 1
I32Max == -(I32Min + 1)

\* wrapping x + y of two i32
Add32(x, y) ==
    IF x > 0 /\ y > I32Max - x THEN (x + I32Min) + (y + I32Min)
    ELSE IF x < 0 /\ y < I32Min - x THEN (x - I32Min) + (y - I32Min)
    ELSE x + y

\* wrapping x << 1
Dbl32(x) == Add32(x, x)

\* wrapping x << n for 0 <= n < 32
RECURSIVE Shl32(_, _)
Shl32(x, n) == IF n = 0 THEN x ELSE Shl32(Dbl32(x), n - 1)

\* wrapping x * k for a small constant k >= 1
RECURSIVE Mul32(_, _)
Mul32(x, k) == IF k = 1 THEN x ELSE Add32(Mul32(x, k - 1), x)

\* i32 division truncating toward zero (Rust /), y > 0
TruncDiv(x, y) ==
    IF x >= 0 THEN x \div y
    ELSE IF x = I32Min THEN -(((-(x + y)) \div y) + 1)
    ELSE -((-x) \div y)

\* calc_base_points: (fu as i32) << (han+2); han+2 is a u8 sum and the shift
\* amount is taken modulo 32
calc_base_points(fu, han) == Shl32(fu, ((han + 2) % 256) % 32)

\* ceil_to_100: (x+99)/100*100
ceil_to_100(x) == TruncDiv(Add32(x, 99), 100) * 100

Normal(fu, han) == [tier |-> "Normal", fu |-> fu, han |-> han]
Tier(t) == [tier |-> t]
Ron(x) == [form |-> "Ron", n |-> x]
OyaTsumo(x) == [form |-> "OyaTsumo", n |-> x]
KoTsumo(ko, oya) == [form |-> "KoTsumo", ko |-> ko, oya |-> oya]
RankedScore(rank, score) == [rank |-> rank, score |-> score]

\* get_oya_ron with the haneman threshold at 7 han
get_oya_ron_haneman_at_7(fu, han) ==
    LET base_points == calc_base_points(fu, han)
    IN  IF base_points >= 2000
        THEN IF 13 <= han THEN RankedScore(Tier("Yakuman"), Ron(48000))
             ELSE IF 11 <= han THEN RankedScore(Tier("Sanbaiman"), Ron(36000))
             ELSE IF 8 <= han THEN RankedScore(Tier("Baiman"), Ron(24000))
             ELSE IF 7 <= han THEN RankedScore(Tier("Haneman"), Ron(18000))
             ELSE RankedScore(Tier("Mangan"), Ron(12000))
        ELSE RankedScore(Normal(fu, han), Ron(ceil_to_100(Mul32(base_points, 6))))

get_oya_ron(fu, han) ==
    LET base_points == calc_base_points(fu, han)
    IN  IF base_points >= 2000
        THEN IF 13 <= han THEN RankedScore(Tier("Yakuman"), Ron(48000))
             ELSE IF 11 <= han THEN RankedScore(Tier("Sanbaiman"), Ron(36000))
             ELSE IF 8 <= han THEN RankedScore(Tier("Baiman"), Ron(24000))
             ELSE IF 6 <= han THEN RankedScore(Tier("Haneman"), Ron(18000))
             ELSE RankedScore(Tier("Mangan"), Ron(12000))
        ELSE RankedScore(Normal(fu, han), Ron(ceil_to_100(Mul32(base_points, 6))))

get_ko_ron(fu, han) ==
    LET base_points == calc_base_points(fu, han)
    IN  IF base_points >= 2000
        THEN IF 13 <= han THEN RankedScore(Tier("Yakuman"), Ron(32000))
             ELSE IF 11 <= han THEN RankedScore(Tier("Sanbaiman"), Ron(24000))
             ELSE IF 8 <= han THEN RankedScore(Tier("Baiman"), Ron(16000))
             ELSE IF 6 <= han THEN RankedScore(Tier("Haneman"), Ron(12000))
             ELSE RankedScore(Tier("Mangan"), Ron(8000))
        ELSE RankedScore(Normal(fu, han), Ron(ceil_to_100(Mul32(base_points, 4))))

get_oya_tsumo(fu, han) ==
    LET base_points == calc_base_points(fu, han)
    IN  IF base_points >= 2000
        THEN IF 13 <= han THEN RankedScore(Tier("Yakuman"), OyaTsumo(16000))
             ELSE IF 11 <= han THEN RankedScore(Tier("Sanbaiman"), OyaTsumo(12000))
             ELSE IF 8 <= han THEN RankedScore(Tier("Baiman"), OyaTsumo(8000))
             ELSE IF 6 <= han THEN RankedScore(Tier("Haneman"), OyaTsumo(6000))
             ELSE RankedScore(Tier("Mangan"), OyaTsumo(4000))
        ELSE RankedScore(Normal(fu, han), OyaTsumo(ceil_to_100(Mul32(base_points, 2))))

get_ko_tsumo(fu, han) ==
    LET base_points == calc_base_points(fu, han)
    IN  IF base_points >= 2000
        THEN IF 13 <= han THEN RankedScore(Tier("Yakuman"), KoTsumo(8000, 16000))
             ELSE IF 11 <= han THEN RankedScore(Tier("Sanbaiman"), KoTsumo(6000, 12000))
             ELSE IF 8 <= han THEN RankedScore(Tier("Baiman"), KoTsumo(4000, 8000))
             ELSE IF 6 <= han THEN RankedScore(Tier("Haneman"), KoTsumo(3000, 6000))
             ELSE RankedScore(Tier("Mangan"), KoTsumo(2000, 4000))
        ELSE RankedScore(Normal(fu, han),
                         KoTsumo(ceil_to_100(base_points), ceil_to_100(Mul32(base_points, 2))))

\* the yakuman path: num is a u8, the products are i32 and cannot overflow
get_oya_tsumo_yakuman(num) == RankedScore(Tier("Yakuman"), OyaTsumo(16000 * num))
get_ko_tsumo_yakuman(num) == RankedScore(Tier("Yakuman"), KoTsumo(8000 * num, 16000 * num))
get_oya_ron_yakuman(num) == RankedScore(Tier("Yakuman"), Ron(48000 * num))
get_ko_ron_yakuman(num) == RankedScore(Tier("Yakuman"), Ron(32000 * num))

(***************************************************************************)
(* Score text.  A string is a sequence of characters; the non-ASCII        *)
(* characters of the grammar are named:                                    *)
(*   "fu" U+7B26, "han" U+98DC, "ten" U+70B9, "forall" U+2200,             *)
(*   "man" U+6E80, "gan" U+8CAB, "hane" U+8DF3, "bai" U+500D,              *)
(*   "san" U+4E09, "yaku" U+5F79                                           *)
(***************************************************************************)

DigitChars == <<"0", "1", "2", "3", "4", "5", "6", "7", "8", "9">>
IsAsciiDigit(ch) == \E d \in 1..10 : DigitChars[d] = ch
DigitValue(ch) == (CHOOSE d \in 1..10 : DigitChars[d] = ch) - 1

\* Display of a non-negative integer
RECURSIVE FmtNat(_)
FmtNat(n) == IF n < 10 THEN <<DigitChars[n + 1]>> ELSE FmtNat(n \div 10) \o <<DigitChars[(n % 10) + 1]>>

\* Display of an i32 / u8
FmtInt(n) ==
    IF n >= 0 THEN FmtNat(n)
    ELSE IF n = I32Min THEN <<"-">> \o FmtNat(214748364) \o <<"8">>
    ELSE <<"-">> \o FmtNat(-n)

\* RANKS, in the order of the table
RANKS ==
    << <<<<"man", "gan">>, Tier("Mangan")>>,
       <<<<"hane", "man">>, Tier("Haneman")>>,
       <<<<"bai", "man">>, Tier("Baiman")>>,
       <<<<"san", "bai", "man">>, Tier("Sanbaiman")>>,
       <<<<"yaku", "man">>, Tier("Yakuman")>> >>

\* Display for ScoreRank
fmt_ScoreRank(rank) ==
    CASE rank.tier = "Normal" -> FmtInt(rank.fu) \o <<"fu">> \o FmtInt(rank.han) \o <<"han">>
      [] rank.tier = "Mangan" -> <<"man", "gan">>
      [] rank.tier = "Haneman" -> <<"hane", "man">>
      [] rank.tier = "Baiman" -> <<"bai", "man">>
      [] rank.tier = "Sanbaiman" -> <<"san", "bai", "man">>
      [] rank.tier = "Yakuman" -> <<"yaku", "man">>

\* Display for Score
fmt_Score(score) ==
    CASE score.form = "OyaTsumo" -> FmtInt(score.n) \o <<"ten", "forall">>
      [] score.form = "KoTsumo" -> FmtInt(score.ko) \o <<"-">> \o FmtInt(score.oya) \o <<"ten">>
      [] score.form = "Ron" -> FmtInt(score.n) \o <<"ten">>

\* Display for RankedScore
fmt_RankedScore(rs) == fmt_ScoreRank(rs.rank) \o fmt_Score(rs.score)

\* A parser takes the rest of the string and returns Some(value) with the new
\* rest, [kind |-> "Ok", val, rest], or None, Err("None"), the iterator unmoved.
Parsed(v, rest) == [kind |-> "Ok", val |-> v, rest |-> rest]

Tail2(str, n) == SubSeq(str, n + 1, Len(str))

\* the length of the longest prefix of ASCII digits
RECURSIVE DigitPrefixLen(_)
DigitPrefixLen(str) ==
    IF str # <<>> /\ IsAsciiDigit(Head(str)) THEN 1 + DigitPrefixLen(Tail(str)) ELSE 0

\* str::parse of a digit string into an integer type with maximum max: None when
\* the string is empty or the value does not fit
RECURSIVE ParseDigits(_, _, _)
ParseDigits(digs, acc, max) ==
    IF digs = <<>> THEN Ok(acc)
    ELSE LET d == DigitValue(Head(digs))
         IN  IF acc > (max - d) \div 10 THEN Err("None")
             ELSE ParseDigits(Tail(digs), acc * 10 + d, max)

\* parse_number::<T>, T with maximum max (u8: 255, i32: 2^31-1)
parse_number(str, max) ==
    LET n == DigitPrefixLen(str)
        v == ParseDigits(SubSeq(str, 1, n), 0, max)
    IN  IF n = 0 \/ ~IsOk(v) THEN Err("None") ELSE Parsed(v.val, Tail2(str, n))

\* parse_symbol: TRUE when the rest starts with symbol
parse_symbol(str, symbol) ==
    Len(str) >= Len(symbol) /\ SubSeq(str, 1, Len(symbol)) = symbol

\* the largest u8: fu and han of ScoreRank::Normal are u8
U8Max == 255

\* parse_rank_normal
parse_rank_normal(str) ==
    LET fu == parse_number(str, U8Max)
    IN  IF ~IsOk(fu) \/ ~parse_symbol(fu.rest, <<"fu">>) THEN Err("None")
        ELSE LET han == parse_number(Tail2(fu.rest, 1), U8Max)
             IN  IF ~IsOk(han) \/ ~parse_symbol(han.rest, <<"han">>) THEN Err("None")
                 ELSE Parsed(Normal(fu.val, han.val), Tail2(han.rest, 1))

\* parse_rank_mangan: the first entry of RANKS the rest starts with
parse_rank_mangan(str) ==
    LET hits == {i \in 1..Len(RANKS) : parse_symbol(str, RANKS[i][1])}
    IN  IF hits = {} THEN Err("None")
        ELSE LET i == CHOOSE i \in hits : \A j \in hits : i <= j
             IN  Parsed(RANKS[i][2], Tail2(str, Len(RANKS[i][1])))

\* parse_rank
parse_rank(str) ==
    IF IsOk(parse_rank_normal(str)) THEN parse_rank_normal(str) ELSE parse_rank_mangan(str)

\* parse_score with the dealer self-draw mark not looked for
parse_score_no_forall(str) ==
    LET num == parse_number(str, I32Max)
    IN  IF ~IsOk(num) THEN Err("None")
        ELSE IF parse_symbol(num.rest, <<"-">>)
        THEN LET num2 == parse_number(Tail2(num.rest, 1), I32Max)
             IN  IF ~IsOk(num2) \/ ~parse_symbol(num2.rest, <<"ten">>) THEN Err("None")
                 ELSE Parsed(KoTsumo(num.val, num2.val), Tail2(num2.rest, 1))
        ELSE IF parse_symbol(num.rest, <<"ten">>)
        THEN Parsed(Ron(num.val), Tail2(num.rest, 1))
        ELSE Err("None")

\* parse_score
parse_score(str) ==
    LET num == parse_number(str, I32Max)
    IN  IF ~IsOk(num) THEN Err("None")
        ELSE IF parse_symbol(num.rest, <<"-">>)
        THEN LET num2 == parse_number(Tail2(num.rest, 1), I32Max)
             IN  IF ~IsOk(num2) \/ ~parse_symbol(num2.rest, <<"ten">>) THEN Err("None")
                 ELSE Parsed(KoTsumo(num.val, num2.val), Tail2(num2.rest, 1))
        ELSE IF parse_symbol(num.rest, <<"ten">>)
        THEN IF parse_symbol(Tail2(num.rest, 1), <<"forall">>)
             THEN Parsed(OyaTsumo(num.val), Tail2(num.rest, 2))
             ELSE Parsed(Ron(num.val), Tail2(num.rest, 1))
        ELSE Err("None")

\* parse_ranked_score
parse_ranked_score(str) ==
    LET rank == parse_rank(str)
    IN  IF ~IsOk(rank) THEN Err("None")
        ELSE LET score == parse_score(rank.rest)
             IN  IF ~IsOk(score) THEN Err("None")
                 ELSE Parsed(RankedScore(rank.val, score.val), score.rest)

\* parse_exact_ranked_score with the end-of-string test left out
parse_exact_ranked_score_prefix(s) ==
    LET ret == parse_ranked_score(s)
    IN  IF ~IsOk(ret) THEN Err("None") ELSE Ok(ret.val)

\* parse_exact_ranked_score (FromStr for RankedScore)
parse_exact_ranked_score(s) ==
    LET ret == parse_ranked_score(s)
    IN  IF ~IsOk(ret) THEN Err("None")
        ELSE IF ret.rest = <<>> THEN Ok(ret.val) ELSE Err("None")

(***************************************************************************)
(* A win action's conversion: mjlog2json-core conv_agari.                  *)
(* An ActionAGARI is a record [who, from_who, pao_who, fu, yaku, yakuman,  *)
(* delta_points, dora_hai_ura, owari]; yaku is a sequence of <<name, han>> *)
(* pairs, yakuman a sequence of names.  Players are their u8 numbers.      *)
(***************************************************************************)

\* ActionAGARI::is_tsumo
is_tsumo(v) == v.who = v.from_who

\* conv_yaku maps each mjlog Yaku to the tenhou-json Yaku of the same name
conv_yaku(x) == x

YakuPair(yaku, level) == [yaku |-> yaku, level |-> level]
LevelNormal(n) == [level |-> "Normal", n |-> n]
LevelYakuman(n) == [level |-> "Yakuman", n |-> n]

\* YakuLevel::get_number
get_number(level) == level.n

\* is_not_ura_zero
is_not_ura_zero(x) == ~(x.yaku = "UraDora" /\ x.level = LevelNormal(0))

\* conv_yaku_vec: map, then filter
conv_yaku_vec(vs) ==
    SelectSeq([i \in 1..Len(vs) |-> YakuPair(conv_yaku(vs[i][1]), LevelNormal(vs[i][2]))],
              is_not_ura_zero)

\* conv_yakuman_vec
conv_yakuman_vec(vs) == [i \in 1..Len(vs) |-> YakuPair(conv_yaku(vs[i]), LevelYakuman(1))]

\* the fold summing get_number in u8 (wrapping)
RECURSIVE SumLevels(_)
SumLevels(ys) ==
    IF ys = <<>> THEN 0 ELSE (get_number(Head(ys).level) + SumLevels(Tail(ys))) % (U8Max + 1)

\* conv_ranked_score_normal
conv_ranked_score_normal(v, han, oya) ==
    CASE is_tsumo(v) /\ v.who = oya -> get_oya_tsumo(v.fu, han)
      [] is_tsumo(v) /\ v.who # oya -> get_ko_tsumo(v.fu, han)
      [] ~is_tsumo(v) /\ v.who = oya -> get_oya_ron(v.fu, han)
      [] ~is_tsumo(v) /\ v.who # oya -> get_ko_ron(v.fu, han)

\* conv_ranked_score_yakuman with the dealer test applied to the payer
conv_ranked_score_yakuman_payer(v, num, oya) ==
    CASE is_tsumo(v) /\ v.from_who = oya -> get_oya_tsumo_yakuman(num)
      [] is_tsumo(v) /\ v.from_who # oya -> get_ko_tsumo_yakuman(num)
      [] ~is_tsumo(v) /\ v.from_who = oya -> get_oya_ron_yakuman(num)
      [] ~is_tsumo(v) /\ v.from_who # oya -> get_ko_ron_yakuman(num)

\* conv_ranked_score_yakuman
conv_ranked_score_yakuman(v, num, oya) ==
    CASE is_tsumo(v) /\ v.who = oya -> get_oya_tsumo_yakuman(num)
      [] is_tsumo(v) /\ v.who # oya -> get_ko_tsumo_yakuman(num)
      [] ~is_tsumo(v) /\ v.who = oya -> get_oya_ron_yakuman(num)
      [] ~is_tsumo(v) /\ v.who # oya -> get_ko_ron_yakuman(num)

\* conv_agari
conv_agari(v, oya) ==
    LET delta_points == [i \in 1..Len(v.delta_points) |-> v.delta_points[i] * 100]
        pao_who == IF IsOk(v.pao_who) THEN v.pao_who.val ELSE v.who
        Agari(yaku, ranked_score) ==
            [delta_points |-> delta_points, who |-> v.who, from_who |-> v.from_who,
             pao_who |-> pao_who, ranked_score |-> ranked_score, yaku |-> yaku]
    IN  IF v.yaku # <<>>
        THEN LET yaku == conv_yaku_vec(v.yaku)
             IN  Ok(Agari(yaku, conv_ranked_score_normal(v, SumLevels(yaku), oya)))
        ELSE IF v.yakuman # <<>>
        THEN LET yaku == conv_yakuman_vec(v.yakuman)
             IN  Ok(Agari(yaku, conv_ranked_score_yakuman(v, SumLevels(yaku), oya)))
        ELSE Panic("unexpected")

(***************************************************************************)
(* SpecScore: one input goes through a calc function or conv_agari, the    *)
(* ranked score is printed, the text is parsed, and the text followed by   *)
(* one more character is parsed.                                           *)
(***************************************************************************)
MaxHan == 13
MaxYakuman == 3

FuSet == {20 + 5 * i : i \in 0..18}
CalcFns == {"get_oya_ron", "get_ko_ron", "get_oya_tsumo", "get_ko_tsumo"}
YakumanFns == {"get_oya_ron_yakuman", "get_ko_ron_yakuman",
               "get_oya_tsumo_yakuman", "get_ko_tsumo_yakuman"}

\* the yakuman attribute lists of 0 .. k names
YakumanList(k) == [i \in 1..k |-> IF i % 2 = 1 THEN "Daisangen" ELSE "Tsuuiisou"]

YakuLists ==
    { <<>>,
      << <<"Riichi", 1>>, <<"UraDora", 0>> >>,
      << <<"UraDora", 0>> >>,
      << <<"Tanyao", 1>>, <<"Dora", 3>>, <<"AkaDora", 1>> >> }

AgariActions ==
    { [who |-> w, from_who |-> f, pao_who |-> None, fu |-> fu, yaku |-> y,
       yakuman |-> YakumanList(k), delta_points |-> <<10, -10, 0, 0>>,
       dora_hai_ura |-> <<>>, owari |-> None] :
      w \in 0..1, f \in 0..1, fu \in {0, 30}, y \in YakuLists, k \in 0..MaxYakuman }

ScoreInputs ==
    {[fn |-> f, fu |-> fu, han |-> han] : f \in CalcFns, fu \in FuSet, han \in 1..MaxHan}
    \cup {[fn |-> f, num |-> k] : f \in YakumanFns, k \in 0..MaxYakuman}
    \cup {[fn |-> "conv_agari", v |-> a, oya |-> o] : a \in AgariActions, o \in 0..1}

\* the characters a text is extended with
ExtraChars ==
    {"0", "9", "-", "fu", "han", "ten", "forall", "man", "gan", "hane", "bai", "san",
     "yaku", " ", "x"}

ScoreInit ==
    /\ s_in \in ScoreInputs /\ s_score = None /\ s_text = <<>> /\ s_parsed = None
    /\ s_pc = "input"
    /\ ConvIdle /\ ReplayIdle /\ TileIdle /\ MeldIdle /\ TextIdle

\* one of the four fu/han functions
ScoreCalc ==
    /\ s_pc = "input" /\ s_in.fn \in CalcFns
    /\ s_score' = CASE s_in.fn = "get_oya_ron" -> Ok(get_oya_ron(s_in.fu, s_in.han))
                    [] s_in.fn = "get_ko_ron" -> Ok(get_ko_ron(s_in.fu, s_in.han))
                    [] s_in.fn = "get_oya_tsumo" -> Ok(get_oya_tsumo(s_in.fu, s_in.han))
                    [] s_in.fn = "get_ko_tsumo" -> Ok(get_ko_tsumo(s_in.fu, s_in.han))
    /\ s_pc' = "scored"
    /\ UNCHANGED <<s_in, s_text, s_parsed, convVars, replayVars, tileVars, meldVars, textVars>>

\* one of the four yakuman functions
ScoreCalcYakuman ==
    /\ s_pc = "input" /\ s_in.fn \in YakumanFns
    /\ s_score' = CASE s_in.fn = "get_oya_ron_yakuman" -> Ok(get_oya_ron_yakuman(s_in.num))
                    [] s_in.fn = "get_ko_ron_yakuman" -> Ok(get_ko_ron_yakuman(s_in.num))
                    [] s_in.fn = "get_oya_tsumo_yakuman" -> Ok(get_oya_tsumo_yakuman(s_in.num))
                    [] s_in.fn = "get_ko_tsumo_yakuman" -> Ok(get_ko_tsumo_yakuman(s_in.num))
    /\ s_pc' = "scored"
    /\ UNCHANGED <<s_in, s_text, s_parsed, convVars, replayVars, tileVars, meldVars, textVars>>

\* conv_agari of a win action; its ranked score is what is printed
ScoreConvAgari ==
    /\ s_pc = "input" /\ s_in.fn = "conv_agari"
    /\ s_score' = conv_agari(s_in.v, s_in.oya)
    /\ s_pc' = "scored"
    /\ UNCHANGED <<s_in, s_text, s_parsed, convVars, replayVars, tileVars, meldVars, textVars>>

\* the RankedScore of the state
RankedOf == IF s_in.fn = "conv_agari" THEN s_score.val.ranked_score ELSE s_score.val

\* to_string of the ranked score
ScorePrint ==
    /\ s_pc = "scored" /\ IsOk(s_score)
    /\ s_text' = fmt_RankedScore(RankedOf)
    /\ s_pc' = "printed"
    /\ UNCHANGED <<s_in, s_score, s_parsed, convVars, replayVars, tileVars, meldVars, textVars>>

\* from_str of the printed text
ScoreParse ==
    /\ s_pc = "printed"
    /\ s_parsed' = parse_exact_ranked_score(s_text)
    /\ s_pc' = "parsed"
    /\ UNCHANGED <<s_in, s_score, s_text, convVars, replayVars, tileVars, meldVars, textVars>>

\* from_str of a parsed text followed by one more character
ScoreParseTrailing ==
    /\ s_pc = "parsed" /\ IsOk(s_parsed)
    /\ \E c \in ExtraChars :
          /\ s_text' = s_text \o <<c>>
          /\ s_parsed' = parse_exact_ranked_score(s_text \o <<c>>)
    /\ s_pc' = "parsed_trailing"
    /\ UNCHANGED <<s_in, s_score, convVars, replayVars, tileVars, meldVars, textVars>>

ScoreNext ==
    \/ ScoreCalc \/ ScoreCalcYakuman \/ ScoreConvAgari
    \/ ScorePrint \/ ScoreParse \/ ScoreParseTrailing

SpecScore == ScoreInit /\ [][ScoreNext]_vars

(***************************************************************************)
(* Properties of the score engine.                                         *)
(***************************************************************************)

\* the smallest multiple of 100 that is at least x (x >= 0)
RoundUp100(x) == x + ((100 - (x % 100)) % 100)

\* the reference table of the claim: the tier by han once base >= 2000
RefTier(han) ==
    IF han >= 13 THEN "Yakuman" ELSE IF han >= 11 THEN "Sanbaiman"
    ELSE IF han >= 8 THEN "Baiman" ELSE IF han >= 6 THEN "Haneman" ELSE "Mangan"

RefOyaRon == [Yakuman |-> 48000, Sanbaiman |-> 36000, Baiman |-> 24000, Haneman |-> 18000, Mangan |-> 12000]
RefKoRon == [Yakuman |-> 32000, Sanbaiman |-> 24000, Baiman |-> 16000, Haneman |-> 12000, Mangan |-> 8000]
RefOyaTsumo == [Yakuman |-> 16000, Sanbaiman |-> 12000, Baiman |-> 8000, Haneman |-> 6000, Mangan |-> 4000]

RefScore(fn, fu, han) ==
    LET base == fu * (2 ^ (han + 2))
        t == RefTier(han)
    IN  IF base >= 2000
        THEN RankedScore(Tier(t),
                CASE fn = "get_oya_ron" -> Ron(RefOyaRon[t])
                  [] fn = "get_ko_ron" -> Ron(RefKoRon[t])
                  [] fn = "get_oya_tsumo" -> OyaTsumo(RefOyaTsumo[t])
                  [] fn = "get_ko_tsumo" -> KoTsumo(RefOyaTsumo[t] \div 2, RefOyaTsumo[t]))
        ELSE RankedScore(Normal(fu, han),
                CASE fn = "get_oya_ron" -> Ron(RoundUp100(base * 6))
                  [] fn = "get_ko_ron" -> Ron(RoundUp100(base * 4))
                  [] fn = "get_oya_tsumo" -> OyaTsumo(RoundUp100(base * 2))
                  [] fn = "get_ko_tsumo" -> KoTsumo(RoundUp100(base), RoundUp100(base * 2)))

\* C5: for fu in {20,25,...,110}, han in 1..MaxHan and each of the four cases the
\* calc function equals the reference table (named tier by han with its fixed
\* payout once fu * 2^(han+2) >= 2000, else Normal{fu,han} with the rounded-up
\* multiples of the base); non-dealer ron (30,4) is Ron(7700) and (30,5) is
\* Mangan Ron(8000).
C5_CalcMatchesTable ==
    (s_pc = "scored" /\ s_in.fn \in CalcFns) =>
        /\ s_score = Ok(RefScore(s_in.fn, s_in.fu, s_in.han))
        /\ (s_in.fn = "get_ko_ron" /\ s_in.fu = 30 /\ s_in.han = 4) =>
              s_score.val = RankedScore(Normal(30, 4), Ron(7700))
        /\ (s_in.fn = "get_ko_ron" /\ s_in.fu = 30 /\ s_in.han = 5) =>
              s_score.val = RankedScore(Tier("Mangan"), Ron(8000))

\* a dealer ron of 6 han was scored as Haneman 18000, and so below Baiman
C5_Witness ==
    /\ s_pc = "scored" /\ s_in.fn = "get_oya_ron" /\ s_in.fu = 30 /\ s_in.han = 6
    /\ s_score.val = RankedScore(Tier("Haneman"), Ron(18000))

\* the yakuman payment of the claim for a winner's case
RefYakuman(dealer, selfdraw, k) ==
    CASE ~selfdraw /\ dealer -> Ron(48000 * k)
      [] ~selfdraw /\ ~dealer -> Ron(32000 * k)
      [] selfdraw /\ dealer -> OyaTsumo(16000 * k)
      [] selfdraw /\ ~dealer -> KoTsumo(8000 * k, 16000 * k)

\* C6: a win action with an empty yaku list and k >= 1 yakuman entries converts to
\* tier Yakuman with k times the top-tier figure of the winner's case (dealer:
\* the winner is the round's dealer; self-draw: the winner is the payer), whatever
\* fu is; a dealer self-draw with k = 2 gives OyaTsumo(32000).
C6_YakumanPath ==
    (s_pc = "scored" /\ s_in.fn = "conv_agari" /\ s_in.v.yaku = <<>> /\ Len(s_in.v.yakuman) >= 1) =>
        /\ IsOk(s_score)
        /\ s_score.val.ranked_score =
              RankedScore(Tier("Yakuman"),
                          RefYakuman(s_in.v.who = s_in.oya, s_in.v.who = s_in.v.from_who,
                                     Len(s_in.v.yakuman)))
        /\ (s_in.v.who = s_in.oya /\ s_in.v.who = s_in.v.from_who /\ Len(s_in.v.yakuman) = 2) =>
              s_score.val.ranked_score.score = OyaTsumo(32000)

\* a double yakuman won by ron by a non-dealer from the dealer, with fu 0
C6_Witness ==
    /\ s_pc = "scored" /\ s_in.fn = "conv_agari"
    /\ s_in.v.yaku = <<>> /\ Len(s_in.v.yakuman) = 2 /\ s_in.v.fu = 0
    /\ s_in.v.who = 1 /\ s_in.v.from_who = 0 /\ s_in.oya = 0
    /\ s_score.val.ranked_score = RankedScore(Tier("Yakuman"), Ron(64000))

\* C7: every RankedScore returned by the four fu/han functions and the four yakuman
\* functions (fu in {20..110}, han in 1..MaxHan, count in 0..MaxYakuman), printed
\* and parsed, gives a RankedScore equal to the original.
C7_PrintParseRoundTrip ==
    s_pc = "parsed" => (IsOk(s_parsed) /\ s_parsed.val = RankedOf)

\* a dealer self-draw of a graduated tier was printed with the mark and parsed back
C7_Witness ==
    /\ s_pc = "parsed" /\ s_in.fn = "get_oya_tsumo"
    /\ RankedOf = RankedScore(Normal(30, 3), OyaTsumo(2000))
    /\ s_text = <<"3", "0", "fu", "3", "han", "2", "0", "0", "0", "ten", "forall">>
    /\ IsOk(s_parsed)

\* C8 as stated: a string that parses to a score, followed by any extra character,
\* is rejected, for each of the three payment forms.
C8_AsStated == s_pc = "parsed_trailing" => ~IsOk(s_parsed)

\* C8 amended: a string that parses to a score, followed by one extra character, is
\* rejected, except that a ron string followed by U+2200 is the dealer self-draw
\* string of the same tier and amount and parses as that; a self-draw string
\* followed by any character is rejected.
C8_TrailingCharacter ==
    s_pc = "parsed_trailing" =>
        IF RankedOf.score.form = "Ron" /\ s_text[Len(s_text)] = "forall"
        THEN s_parsed = Ok(RankedScore(RankedOf.rank, OyaTsumo(RankedOf.score.n)))
        ELSE ~IsOk(s_parsed)

\* each payment form was followed by a space and rejected
C8_Witness ==
    /\ s_pc = "parsed_trailing" /\ s_text[Len(s_text)] = " " /\ ~IsOk(s_parsed)
    /\ RankedOf.score.form = "KoTsumo" /\ RankedOf.rank.tier = "Haneman"

(***************************************************************************)
(* SpecCalc: one of the four fu/han functions on a hand of 13 han or more,  *)
(* in a build without overflow checks (release profile: wrapping, the shift *)
(* amount masked) or with them (dev profile: a panic).                      *)
(***************************************************************************)
KazoeHan == 13

CalcInputs ==
    {[fn |-> f, fu |-> fu, han |-> han] : f \in CalcFns, fu \in FuSet, han \in KazoeHan..U8Max}

\* the function named by an input, as computed without overflow checks
calc_apply(in) ==
    CASE in.fn = "get_oya_ron" -> get_oya_ron(in.fu, in.han)
      [] in.fn = "get_ko_ron" -> get_ko_ron(in.fu, in.han)
      [] in.fn = "get_oya_tsumo" -> get_oya_tsumo(in.fu, in.han)
      [] in.fn = "get_ko_tsumo" -> get_ko_tsumo(in.fu, in.han)

\* the factors base_points is multiplied by in the graduated arm of a function
CalcFactors(fn) ==
    CASE fn = "get_oya_ron" -> {6} [] fn = "get_ko_ron" -> {4}
      [] fn = "get_oya_tsumo" -> {2} [] fn = "get_ko_tsumo" -> {1, 2}

\* x * k leaves the i32 range: the wrapped product is not k times x
MulOverflows(x, k) == ~(Mul32(x, k) % k = 0 /\ Mul32(x, k) \div k = x)

\* the overflow checks met on the way through calc_base_points and the function:
\* han+2 in u8, the shift amount below 32, and in the graduated arm
\* base_points * k and x + 99 in i32; None when all pass
calc_overflow_check(in) ==
    IF in.han + 2 > U8Max THEN Panic("attempt to add with overflow")
    ELSE IF in.han + 2 >= 32 THEN Panic("attempt to shift left with overflow")
    ELSE IF calc_base_points(in.fu, in.han) >= 2000 THEN None
    ELSE IF \E k \in CalcFactors(in.fn) : MulOverflows(calc_base_points(in.fu, in.han), k)
    THEN Panic("attempt to multiply with overflow")
    ELSE IF \E k \in CalcFactors(in.fn) : calc_base_points(in.fu, in.han) * k > I32Max - 99
    THEN Panic("attempt to add with overflow")
    ELSE None

CalcInit ==
    /\ s_in \in CalcInputs /\ s_score = None /\ s_text = <<>> /\ s_parsed = None
    /\ s_pc = "input"
    /\ ConvIdle /\ ReplayIdle /\ TileIdle /\ MeldIdle /\ TextIdle

\* the call in a build without overflow checks
CalcWrapping ==
    /\ s_pc = "input"
    /\ s_score' = Ok(calc_apply(s_in))
    /\ s_pc' = "scored"
    /\ UNCHANGED <<s_in, s_text, s_parsed, convVars, replayVars, tileVars, meldVars, textVars>>

\* the call in a build with overflow checks
CalcChecked ==
    /\ s_pc = "input"
    /\ s_score' = (IF calc_overflow_check(s_in) = None THEN Ok(calc_apply(s_in))
                   ELSE calc_overflow_check(s_in))
    /\ s_pc' = "scored_checked"
    /\ UNCHANGED <<s_in, s_text, s_parsed, convVars, replayVars, tileVars, meldVars, textVars>>

CalcNext == CalcWrapping \/ CalcChecked

SpecCalc == CalcInit /\ [][CalcNext]_vars

\* the fixed payout of the top tier, by function
YakumanPayout(fn) ==
    CASE fn = "get_oya_ron" -> RankedScore(Tier("Yakuman"), Ron(48000))
      [] fn = "get_ko_ron" -> RankedScore(Tier("Yakuman"), Ron(32000))
      [] fn = "get_oya_tsumo" -> RankedScore(Tier("Yakuman"), OyaTsumo(16000))
      [] fn = "get_ko_tsumo" -> RankedScore(Tier("Yakuman"), KoTsumo(8000, 16000))

\* C28 as stated: for every fu >= 20 and every han from 13 to 255 each of the
\* four functions returns the Yakuman tier with its fixed payout; the base
\* value fu << (han+2) never wraps, goes negative or overflows the shift
C28_AsStated ==
    s_pc \in {"scored", "scored_checked"} => s_score = Ok(YakumanPayout(s_in.fn))

(***************************************************************************)
(* Per-seat replay: mjlog2json-core replay_actions.                        *)
(* An action is a record with its tag in t: DRAW / DISCARD carry who, hai; *)
(* REACH1 carries who; N carries who and the decoded meld m.               *)
(* IncomingTile and OutgoingTile are records with the variant in kind.     *)
(***************************************************************************)

Tsumo(tile) == [kind |-> "Tsumo", tile |-> tile]
IncomingChii(c) == [kind |-> "Chii", combination |-> c]
IncomingPon(dir, c) == [kind |-> "Pon", dir |-> dir, combination |-> c]
IncomingDaiminkan(c, dir) == [kind |-> "Daiminkan", combination |-> c, dir |-> dir]
Tsumogiri == [kind |-> "Tsumogiri"]
TsumogiriRiichi == [kind |-> "TsumogiriRiichi"]
Riichi(tile) == [kind |-> "Riichi", tile |-> tile]
Discard(tile) == [kind |-> "Discard", tile |-> tile]
OutgoingKakan(dir, c, added) == [kind |-> "Kakan", dir |-> dir, combination |-> c, added |-> added]
OutgoingAnkan(tile) == [kind |-> "Ankan", tile |-> tile]
Dummy == [kind |-> "Dummy"]

\* conv_dir maps each mjlog Direction to the tenhou-json Direction of the same name
conv_dir(d) == d

\* the locals of replay_actions before the loop
ReplayLocals0 == [incoming |-> <<>>, outgoing |-> <<>>, reach_declared |-> FALSE, last_draw |-> None]

\* Action::DRAW
replay_draw(st, x) ==
    Then(conv_hai_to_tile(x.hai, TRUE), LAMBDA tile :
        Ok([st EXCEPT !.incoming = Append(@, Tsumo(tile)), !.last_draw = Ok(x.hai)]))

\* Action::DISCARD without the reset of last_draw
replay_discard_keeps_last_draw(st, x) ==
    IF IsOk(st.last_draw) /\ st.last_draw.val = x.hai
    THEN Ok([st EXCEPT !.outgoing = Append(@, IF st.reach_declared THEN TsumogiriRiichi ELSE Tsumogiri),
                       !.reach_declared = FALSE])
    ELSE Then(conv_hai_to_tile(x.hai, TRUE), LAMBDA tile :
            Ok([st EXCEPT !.outgoing = Append(@, IF st.reach_declared THEN Riichi(tile)
                                                   ELSE Discard(tile)),
                          !.reach_declared = FALSE]))

\* Action::DISCARD without the reset of reach_declared
replay_discard_keeps_reach_declared(st, x) ==
    IF IsOk(st.last_draw) /\ st.last_draw.val = x.hai
    THEN Ok([st EXCEPT !.outgoing = Append(@, IF st.reach_declared THEN TsumogiriRiichi ELSE Tsumogiri),
                       !.last_draw = None])
    ELSE Then(conv_hai_to_tile(x.hai, TRUE), LAMBDA tile :
            Ok([st EXCEPT !.outgoing = Append(@, IF st.reach_declared THEN Riichi(tile)
                                                   ELSE Discard(tile)),
                          !.last_draw = None]))

\* Action::DISCARD
replay_discard(st, x) ==
    IF IsOk(st.last_draw) /\ st.last_draw.val = x.hai
    THEN Ok([st EXCEPT !.outgoing = Append(@, IF st.reach_declared THEN TsumogiriRiichi ELSE Tsumogiri),
                       !.reach_declared = FALSE, !.last_draw = None])
    ELSE Then(conv_hai_to_tile(x.hai, TRUE), LAMBDA tile :
            Ok([st EXCEPT !.outgoing = Append(@, IF st.reach_declared THEN Riichi(tile)
                                                   ELSE Discard(tile)),
                          !.reach_declared = FALSE, !.last_draw = None]))

\* Action::REACH1
replay_reach1(st, x) == Ok([st EXCEPT !.reach_declared = TRUE])

\* Meld::Chii
replay_chii(st, m) ==
    LET c == m.combination
        orders == CASE m.called_position = 0 -> c
                    [] m.called_position = 1 -> <<c[2], c[1], c[3]>>
                    [] m.called_position = 2 -> <<c[3], c[1], c[2]>>
                    [] OTHER -> <<>>
    IN  IF m.called_position \notin 0..2 THEN Panic("unexpected called position")
        ELSE Then(conv_hai_to_tile(orders[1], TRUE), LAMBDA t1 :
             Then(conv_hai_to_tile(orders[2], TRUE), LAMBDA t2 :
             Then(conv_hai_to_tile(orders[3], TRUE), LAMBDA t3 :
                Ok([st EXCEPT !.incoming = Append(@, IncomingChii(<<t1, t2, t3>>))]))))

\* Meld::Pon of a five with a red tile put at the direction's slot when the
\* unused copy is the red one
pon_five_combination_unused_red_placed(dir, called_tile, unused_tile) ==
    LET tile == to_black(called_tile)
    IN  IF is_red(unused_tile) \/ is_red(called_tile)
        THEN CASE dir = "Kamicha" -> Ok(<<to_red(tile), tile, tile>>)
               [] dir = "Toimen" -> Ok(<<tile, to_red(tile), tile>>)
               [] dir = "Shimocha" -> Ok(<<tile, tile, to_red(tile)>>)
               [] OTHER -> Panic("unexpected")
        ELSE IF dir = "Shimocha" THEN Ok(<<tile, to_red(tile), tile>>)
        ELSE Ok(<<tile, tile, to_red(tile)>>)

\* Meld::Pon of a five: where the red tile is placed
pon_five_combination(dir, called_tile, unused_tile) ==
    LET tile == to_black(called_tile)
    IN  IF is_red(unused_tile) THEN Ok(<<tile, tile, tile>>)
        ELSE IF is_red(called_tile)
        THEN CASE dir = "Kamicha" -> Ok(<<called_tile, tile, tile>>)
               [] dir = "Toimen" -> Ok(<<tile, called_tile, tile>>)
               [] dir = "Shimocha" -> Ok(<<tile, tile, called_tile>>)
               [] OTHER -> Panic("unexpected")
        ELSE IF dir = "Shimocha" THEN Ok(<<tile, to_red(tile), tile>>)
        ELSE Ok(<<tile, tile, to_red(tile)>>)

\* Meld::Pon
replay_pon(st, m) ==
    IF is_number5(m.called)
    THEN Then(conv_hai_to_tile(m.called, TRUE), LAMBDA called_tile :
         Then(conv_hai_to_tile(m.unused, TRUE), LAMBDA unused_tile :
         Then(pon_five_combination(conv_dir(m.dir), called_tile, unused_tile), LAMBDA c :
            Ok([st EXCEPT !.incoming = Append(@, IncomingPon(conv_dir(m.dir), c))]))))
    ELSE Then(conv_hai_to_tile(m.called, TRUE), LAMBDA tile :
            Ok([st EXCEPT !.incoming = Append(@, IncomingPon(conv_dir(m.dir), <<tile, tile, tile>>))]))

\* Meld::Kakan of a five: where the red tile is placed
kakan_five_combination(dir, called_tile, added_tile) ==
    LET tile == to_black(called_tile)
    IN  IF is_red(added_tile) THEN Ok(<<tile, tile, tile>>)
        ELSE IF is_red(called_tile)
        THEN CASE dir = "Kamicha" -> Ok(<<called_tile, tile, tile>>)
               [] dir = "Toimen" -> Ok(<<tile, called_tile, tile>>)
               [] dir = "Shimocha" -> Ok(<<tile, tile, called_tile>>)
               [] OTHER -> Panic("unexpected")
        ELSE IF dir = "Shimocha" THEN Ok(<<tile, to_red(tile), tile>>)
        ELSE Ok(<<tile, tile, to_red(tile)>>)

\* Meld::Kakan with the entry pushed to incoming
replay_kakan_to_incoming(st, m) ==
    IF is_number5(m.called)
    THEN Then(conv_hai_to_tile(m.called, TRUE), LAMBDA called_tile :
         Then(conv_hai_to_tile(m.added, TRUE), LAMBDA added_tile :
         Then(kakan_five_combination(conv_dir(m.dir), called_tile, added_tile), LAMBDA c :
            Ok([st EXCEPT !.incoming = Append(@, OutgoingKakan(conv_dir(m.dir), c, added_tile))]))))
    ELSE Then(conv_hai_to_tile(m.called, TRUE), LAMBDA tile :
            Ok([st EXCEPT !.incoming =
                    Append(@, OutgoingKakan(conv_dir(m.dir), <<tile, tile, tile>>, tile))]))

\* Meld::Kakan
replay_kakan(st, m) ==
    IF is_number5(m.called)
    THEN Then(conv_hai_to_tile(m.called, TRUE), LAMBDA called_tile :
         Then(conv_hai_to_tile(m.added, TRUE), LAMBDA added_tile :
         Then(kakan_five_combination(conv_dir(m.dir), called_tile, added_tile), LAMBDA c :
            Ok([st EXCEPT !.outgoing = Append(@, OutgoingKakan(conv_dir(m.dir), c, added_tile))]))))
    ELSE Then(conv_hai_to_tile(m.called, TRUE), LAMBDA tile :
            Ok([st EXCEPT !.outgoing =
                    Append(@, OutgoingKakan(conv_dir(m.dir), <<tile, tile, tile>>, tile))]))

\* Meld::Daiminkan of a five with a called red tile from Shimocha put at the
\* third of the four slots
daiminkan_five_combination_shimocha_third(dir, called_tile) ==
    LET tile == to_black(called_tile)
    IN  IF is_red(called_tile)
        THEN CASE dir = "Kamicha" -> Ok(<<called_tile, tile, tile, tile>>)
               [] dir = "Toimen" -> Ok(<<tile, called_tile, tile, tile>>)
               [] dir = "Shimocha" -> Ok(<<tile, tile, called_tile, tile>>)
               [] OTHER -> Panic("unexpected")
        ELSE IF dir = "Shimocha" THEN Ok(<<tile, tile, to_red(tile), tile>>)
        ELSE Ok(<<tile, tile, tile, to_red(tile)>>)

\* Meld::Ankan with the tile recorded as converted
replay_ankan_as_converted(st, m) ==
    Then(conv_hai_to_tile(m.hai, TRUE), LAMBDA t :
        Ok([st EXCEPT !.outgoing = Append(@, OutgoingAnkan(t))]))

\* Meld::Daiminkan of a five: where the red tile is placed
daiminkan_five_combination(dir, called_tile) ==
    LET tile == to_black(called_tile)
    IN  IF is_red(called_tile)
        THEN CASE dir = "Kamicha" -> Ok(<<called_tile, tile, tile, tile>>)
               [] dir = "Toimen" -> Ok(<<tile, called_tile, tile, tile>>)
               [] dir = "Shimocha" -> Ok(<<tile, tile, tile, called_tile>>)
               [] OTHER -> Panic("unexpected")
        ELSE IF dir = "Shimocha" THEN Ok(<<tile, tile, to_red(tile), tile>>)
        ELSE Ok(<<tile, tile, tile, to_red(tile)>>)

\* Meld::Daiminkan: the four tiles as placed
daiminkan_combination(m) ==
    IF is_number5(m.hai)
    THEN Then(conv_hai_to_tile(m.hai, TRUE), LAMBDA called_tile :
            daiminkan_five_combination(conv_dir(m.dir), called_tile))
    ELSE Then(conv_hai_to_tile(m.hai, TRUE), LAMBDA tile : Ok(<<tile, tile, tile, tile>>))

\* Meld::Daiminkan without the push of the filler to outgoing
replay_daiminkan_no_filler(st, m) ==
    Then(daiminkan_combination(m), LAMBDA c :
        Ok([st EXCEPT !.incoming = Append(@, IncomingDaiminkan(c, conv_dir(m.dir)))]))

\* Meld::Daiminkan
replay_daiminkan(st, m) ==
    Then(daiminkan_combination(m), LAMBDA c :
        Ok([st EXCEPT !.incoming = Append(@, IncomingDaiminkan(c, conv_dir(m.dir))),
                      !.outgoing = Append(@, Dummy)]))

\* Meld::Ankan
replay_ankan(st, m) ==
    Then(conv_hai_to_tile(m.hai, TRUE), LAMBDA t :
        Ok([st EXCEPT !.outgoing = Append(@, OutgoingAnkan(to_red(t)))]))

\* one iteration of the loop: the match on the action
replay_step(st, a) ==
    CASE a.t = "DRAW" -> replay_draw(st, a)
      [] a.t = "DISCARD" -> replay_discard(st, a)
      [] a.t = "REACH1" -> replay_reach1(st, a)
      [] a.t = "N" ->
            CASE a.m.kind = "Chii" -> replay_chii(st, a.m)
              [] a.m.kind = "Pon" -> replay_pon(st, a.m)
              [] a.m.kind = "Kakan" -> replay_kakan(st, a.m)
              [] a.m.kind = "Daiminkan" -> replay_daiminkan(st, a.m)
              [] a.m.kind = "Ankan" -> replay_ankan(st, a.m)
      [] OTHER -> Panic("unexpected")

\* the loop over the actions, from locals st; stops at the first Err or panic
RECURSIVE replay_loop(_, _)
replay_loop(st, acts) ==
    IF acts = <<>> THEN Ok(st)
    ELSE Then(replay_step(st, Head(acts)), LAMBDA next : replay_loop(next, Tail(acts)))

\* a single pop where the loop pops while the last entry is the filler
trim_dummy_once(out) ==
    IF out # <<>> /\ out[Len(out)] = Dummy THEN SubSeq(out, 1, Len(out) - 1) ELSE out

\* while outgoing.last() == Some(&Dummy) { outgoing.pop(); }
RECURSIVE trim_dummy(_)
trim_dummy(out) ==
    IF out # <<>> /\ out[Len(out)] = Dummy THEN trim_dummy(SubSeq(out, 1, Len(out) - 1)) ELSE out

\* replay_actions as a function of the slice
replay_actions(acts) ==
    Then(replay_loop(ReplayLocals0, acts), LAMBDA st :
        Ok([incoming |-> st.incoming, outgoing |-> trim_dummy(st.outgoing)]))

(***************************************************************************)
(* SpecMeld, continued: the meld decoded from the field is the m of a      *)
(* seat's only N action and replay_actions is run on that slice.           *)
(***************************************************************************)
MeldReplay ==
    /\ m_pc = "decoded" /\ IsOk(m_meld)
    /\ m_replay' = replay_actions(<<[t |-> "N", who |-> 0, m |-> m_meld.val]>>)
    /\ m_pc' = "replayed"
    /\ UNCHANGED <<m_field, m_meld, m_field2, m_meld2, convVars, replayVars, scoreVars, tileVars, textVars>>

MeldNext == MeldDecode \/ MeldEncode \/ MeldDecodeAgain \/ MeldReplay

SpecMeld == MeldInit /\ [][MeldNext]_vars

(***************************************************************************)
(* SpecReplay: replay_actions consumes one seat's actions one at a time.   *)
(***************************************************************************)
MaxReplay == 4

\* the m attribute of an N tag, by variant
ChiiField(pattern, o_min, o_mid, o_max) == pattern * 1024 + o_max * 128 + o_mid * 32 + o_min * 8 + 4 + 3
PonField(pattern, unused_offset, dirbits) == pattern * 512 + unused_offset * 32 + 8 + dirbits
KakanField(pattern, unused_offset, dirbits) == pattern * 512 + unused_offset * 32 + 16 + dirbits
KanField(hai, dirbits) == hai * 256 + dirbits

\* the tiles a seat draws and discards here: red 5m, 2p
ReplayHais == {16, 40}

\* the meld fields a seat calls here
ReplayMeldFields ==
    { ChiiField(10, 0, 0, 0),      \* Chii 4m5m6m with the red five, called 5m
      PonField(12, 1, 3),          \* Pon of 5m from Kamicha, red called
      PonField(12, 1, 0),          \* Pon of 5m, red called, source direction self
      PonField(12, 0, 3),          \* Pon of 5m from Kamicha, red unused
      PonField(12, 0, 2),          \* Pon of 5m from Toimen, red unused
      PonField(12, 0, 1),          \* Pon of 5m from Shimocha, red unused
      KakanField(13, 0, 2),        \* Kakan of 5m from Toimen, red added
      KanField(16, 1),             \* Daiminkan of 5m from Shimocha, red called
      KanField(108, 3),            \* Daiminkan of east from Kamicha
      KanField(110, 0),            \* Ankan of east
      KanField(200, 2) }           \* Daiminkan of a tile ordinal above 135

\* the melds the decoder gives for the fields
ReplayMelds ==
    {conv_meld_from_u16(f).val : f \in {g \in ReplayMeldFields : IsOk(conv_meld_from_u16(g))}}

ReplayInit ==
    /\ r_actions = <<>> /\ incoming = <<>> /\ outgoing = <<>>
    /\ reach_declared = FALSE /\ last_draw = None /\ r_ret = None /\ r_pc = "loop"
    /\ ConvIdle /\ ScoreIdle /\ TileIdle /\ MeldIdle /\ TextIdle

ReplayLocals == [incoming |-> incoming, outgoing |-> outgoing,
                 reach_declared |-> reach_declared, last_draw |-> last_draw]

\* the outcome r of the loop body: the locals advance, or the function leaves
ReplayAdvance(r) ==
    IF IsOk(r)
    THEN /\ incoming' = r.val.incoming /\ outgoing' = r.val.outgoing
         /\ reach_declared' = r.val.reach_declared /\ last_draw' = r.val.last_draw
         /\ UNCHANGED <<r_ret, r_pc>>
    ELSE /\ r_ret' = r /\ r_pc' = "done"
         /\ UNCHANGED <<incoming, outgoing, reach_declared, last_draw>>

\* the loop body on action a
ReplayIterate(a) ==
    /\ Len(r_actions) < MaxReplay
    /\ r_actions' = Append(r_actions, a)
    /\ ReplayAdvance(replay_step(ReplayLocals, a))
    /\ UNCHANGED <<convVars, scoreVars, tileVars, meldVars, textVars>>

ReplayDRAW ==
    /\ r_pc = "loop"
    /\ \E h \in ReplayHais : ReplayIterate([t |-> "DRAW", who |-> 0, hai |-> h])

ReplayDISCARD ==
    /\ r_pc = "loop"
    /\ \E h \in ReplayHais : ReplayIterate([t |-> "DISCARD", who |-> 0, hai |-> h])

ReplayREACH1 ==
    /\ r_pc = "loop"
    /\ ReplayIterate([t |-> "REACH1", who |-> 0])

ReplayN ==
    /\ r_pc = "loop"
    /\ \E meld \in ReplayMelds : ReplayIterate([t |-> "N", who |-> 0, m |-> meld])

\* the end of the slice: trailing fillers are popped and the streams returned
ReplayReturn ==
    /\ r_pc = "loop"
    /\ outgoing' = trim_dummy(outgoing)
    /\ r_ret' = Ok([incoming |-> incoming, outgoing |-> trim_dummy(outgoing)])
    /\ r_pc' = "done"
    /\ UNCHANGED <<r_actions, incoming, reach_declared, last_draw,
                   convVars, scoreVars, tileVars, meldVars, textVars>>

ReplayNext == ReplayDRAW \/ ReplayDISCARD \/ ReplayREACH1 \/ ReplayN \/ ReplayReturn

SpecReplay == ReplayInit /\ [][ReplayNext]_vars

(***************************************************************************)
(* Properties of the replay.                                               *)
(***************************************************************************)

\* the pre-trim locals of the loop over the consumed actions
PreTrim == replay_loop(ReplayLocals0, r_actions)

\* C3: the outgoing stream returned by replay_actions is empty or ends in an entry
\* that is not the filler; it is the pre-trim stream without its trailing fillers:
\* a prefix of it, every removed entry a filler.
C3_NoTrailingFiller ==
    (r_pc = "done" /\ IsOk(r_ret)) =>
        LET out == r_ret.val.outgoing
            pre == PreTrim.val.outgoing
        IN  /\ out = <<>> \/ out[Len(out)] # Dummy
            /\ Len(out) <= Len(pre)
            /\ out = SubSeq(pre, 1, Len(out))
            /\ \A i \in (Len(out) + 1)..Len(pre) : pre[i] = Dummy
            /\ outgoing = out

\* two fillers after a discard were both removed
C3_Witness ==
    /\ r_pc = "done" /\ IsOk(r_ret)
    /\ Len(PreTrim.val.outgoing) = 3
    /\ PreTrim.val.outgoing[2] = Dummy /\ PreTrim.val.outgoing[3] = Dummy
    /\ r_ret.val.outgoing = <<Discard(22)>>

\* C4 as stated: every Daiminkan at index i of incoming has the filler at the same
\* index i of the outgoing stream before the trim.
C4_AsStated ==
    r_pc = "loop" =>
        \A i \in 1..Len(incoming) :
            incoming[i].kind = "Daiminkan" => (i <= Len(outgoing) /\ outgoing[i] = Dummy)

\* C4 amended: a Daiminkan and its filler are appended by the same step, each at the
\* end of its stream: replaying the k-th action, a Daiminkan, puts the call at index
\* Len(incoming) + 1 of incoming and the filler at index Len(outgoing) + 1 of
\* outgoing, for the lengths the streams had before that action; the two indices
\* are the same exactly when the streams had the same length then.
C4_DaiminkanFiller ==
    r_pc = "loop" =>
        \A k \in 1..Len(r_actions) :
            (r_actions[k].t = "N" /\ r_actions[k].m.kind = "Daiminkan") =>
                LET pre == replay_loop(ReplayLocals0, SubSeq(r_actions, 1, k - 1)).val
                    i == Len(pre.incoming) + 1
                    j == Len(pre.outgoing) + 1
                IN  /\ i <= Len(incoming) /\ incoming[i].kind = "Daiminkan"
                    /\ j <= Len(outgoing) /\ outgoing[j] = Dummy
                    /\ (i = j) <=> (Len(pre.incoming) = Len(pre.outgoing))

\* a Daiminkan after a draw and a discard sits at index 2 of both streams
C4_Witness ==
    /\ r_pc = "loop" /\ Len(r_actions) = 3
    /\ r_actions[1].t = "DRAW" /\ r_actions[2].t = "DISCARD"
    /\ Len(incoming) = 2 /\ incoming[2].kind = "Daiminkan"
    /\ Len(outgoing) = 2 /\ outgoing[2] = Dummy

\* the last consumed action is a Pon of a five whose unused copy is the red
\* one, and the loop went on
PonOfFiveUnusedRed ==
    /\ r_pc = "loop" /\ Len(r_actions) > 0
    /\ r_actions[Len(r_actions)].t = "N"
    /\ r_actions[Len(r_actions)].m.kind = "Pon"
    /\ is_number5(r_actions[Len(r_actions)].m.called)
    /\ r_actions[Len(r_actions)].m.unused \in {16, 52, 88}

SlotOfDirection(dir) == CASE dir = "Kamicha" -> 1 [] dir = "Toimen" -> 2 [] dir = "Shimocha" -> 3

LocalsAfter(k) == replay_loop(ReplayLocals0, SubSeq(r_actions, 1, k)).val

\* the last entry of a stream
LastOf(xs) == xs[Len(xs)]

\* the ordinal of the most recent DRAW among the first k consumed actions with
\* no DISCARD after it, None when there is no such DRAW
RECURSIVE DrawnSinceDiscard(_)
DrawnSinceDiscard(k) ==
    IF k = 0 THEN None
    ELSE IF r_actions[k].t = "DRAW" THEN Ok(r_actions[k].hai)
    ELSE IF r_actions[k].t = "DISCARD" THEN None
    ELSE DrawnSinceDiscard(k - 1)

\* a REACH1 is among the first k consumed actions with no DISCARD after it
RECURSIVE DeclaredSinceDiscard(_)
DeclaredSinceDiscard(k) ==
    IF k = 0 THEN FALSE
    ELSE IF r_actions[k].t = "REACH1" THEN TRUE
    ELSE IF r_actions[k].t = "DISCARD" THEN FALSE
    ELSE DeclaredSinceDiscard(k - 1)

\* the last consumed action and the locals before it
LastAction == r_actions[Len(r_actions)]
LocalsBefore == LocalsAfter(Len(r_actions) - 1)

\* C21: a DISCARD of ordinal t appends exactly one outgoing entry; the entry is
\* the draw-discard form (Tsumogiri, TsumogiriRiichi when a riichi is pending)
\* exactly when the most recent DRAW since the seat's previous DISCARD drew the
\* same ordinal t, calls in between or not, and Discard(tile of t) (Riichi(tile
\* of t) when a riichi is pending) otherwise; last_draw and reach_declared are
\* both cleared after every DISCARD. Stated of the last action consumed, in
\* every state of the loop.
C21_DiscardForm ==
    (r_pc = "loop" /\ Len(r_actions) > 0 /\ LastAction.t = "DISCARD") =>
        LET pre == LocalsBefore
            declared == DeclaredSinceDiscard(Len(r_actions) - 1)
        IN  /\ outgoing = Append(pre.outgoing,
                    IF DrawnSinceDiscard(Len(r_actions) - 1) = Ok(LastAction.hai)
                    THEN (IF declared THEN TsumogiriRiichi ELSE Tsumogiri)
                    ELSE (IF declared
                          THEN Riichi(conv_hai_to_tile(LastAction.hai, TRUE).val)
                          ELSE Discard(conv_hai_to_tile(LastAction.hai, TRUE).val)))
            /\ incoming = pre.incoming
            /\ last_draw = None /\ reach_declared = FALSE

\* a draw of the red 5m, a call, the discard of the drawn tile (a Tsumogiri)
\* and a second discard of the same ordinal (a Discard) have been replayed
C21_Witness ==
    /\ r_pc = "loop" /\ Len(r_actions) = 4
    /\ r_actions[1] = [t |-> "DRAW", who |-> 0, hai |-> 16]
    /\ r_actions[2].t = "N"
    /\ r_actions[3] = [t |-> "DISCARD", who |-> 0, hai |-> 16]
    /\ r_actions[4] = [t |-> "DISCARD", who |-> 0, hai |-> 16]
    /\ LocalsAfter(2).last_draw = Ok(16)
    /\ Len(outgoing) >= 2
    /\ outgoing[Len(outgoing) - 1] = Tsumogiri
    /\ outgoing[Len(outgoing)] = Discard(51)
    /\ last_draw = None

\* the riichi-marked variants of an outgoing entry
IsRiichiMarked(e) == e.kind \in {"Riichi", "TsumogiriRiichi"}

\* C22: a REACH1 appends nothing to incoming or outgoing; the outgoing entry of
\* a DISCARD is riichi-marked (Riichi or TsumogiriRiichi) exactly when a REACH1
\* came since the seat's previous DISCARD, so each declaration marks at most one
\* discard, and the riichi-marked entries of outgoing are as many as the
\* discards that are the first after a declaration. The step part is stated of
\* the last action consumed, in every state of the loop.
C22_RiichiMarks ==
    (r_pc = "loop" /\ Len(r_actions) > 0) =>
        /\ LastAction.t = "REACH1" =>
                LET pre == LocalsBefore
                IN  incoming = pre.incoming /\ outgoing = pre.outgoing
        /\ LastAction.t = "DISCARD" =>
                (IsRiichiMarked(LastOf(outgoing)) <=> DeclaredSinceDiscard(Len(r_actions) - 1))
        /\ LET marked == Cardinality({i \in 1..Len(outgoing) : IsRiichiMarked(outgoing[i])})
           IN  /\ marked = Cardinality({k \in 1..Len(r_actions) :
                                r_actions[k].t = "DISCARD" /\ DeclaredSinceDiscard(k - 1)})
               /\ marked <= Cardinality({k \in 1..Len(r_actions) : r_actions[k].t = "REACH1"})

\* two declarations, then a marked discard, then an unmarked discard
C22_Witness ==
    /\ r_pc = "loop" /\ Len(r_actions) = 4
    /\ r_actions[1].t = "REACH1" /\ r_actions[2].t = "REACH1"
    /\ r_actions[3].t = "DISCARD" /\ r_actions[4].t = "DISCARD"
    /\ incoming = <<>>
    /\ outgoing = <<Riichi(22), Discard(22)>>

\* the number of entries a consumed action appends to incoming and to outgoing
AppendsToIncoming(a) ==
    IF a.t = "DRAW" \/ (a.t = "N" /\ a.m.kind \in {"Chii", "Pon", "Daiminkan"}) THEN 1 ELSE 0
AppendsToOutgoing(a) ==
    IF a.t = "DISCARD" \/ (a.t = "N" /\ a.m.kind \in {"Kakan", "Ankan", "Daiminkan"}) THEN 1 ELSE 0

\* the entries the first k consumed actions append to incoming and to outgoing
RECURSIVE CountIncoming(_)
CountIncoming(k) == IF k = 0 THEN 0 ELSE CountIncoming(k - 1) + AppendsToIncoming(r_actions[k])
RECURSIVE CountOutgoing(_)
CountOutgoing(k) == IF k = 0 THEN 0 ELSE CountOutgoing(k - 1) + AppendsToOutgoing(r_actions[k])

\* C23: each replayed action appends to the stream its kind is routed to and
\* leaves the earlier entries of both streams as they were: DRAW, Chii and Pon
\* append one entry to incoming and none to outgoing; DISCARD, Kakan and Ankan
\* one to outgoing and none to incoming; Daiminkan one to each; REACH1 none.
\* Before the trim the length of incoming is #DRAW + #Chii + #Pon + #Daiminkan
\* and the length of outgoing is #DISCARD + #Kakan + #Ankan + #Daiminkan. The
\* step part is stated of the last action consumed, in every state of the loop.
C23_StreamRouting ==
    (r_pc = "loop" /\ Len(r_actions) > 0) =>
        /\ LET pre == LocalsBefore
           IN  /\ Len(incoming) = Len(pre.incoming) + AppendsToIncoming(LastAction)
               /\ Len(outgoing) = Len(pre.outgoing) + AppendsToOutgoing(LastAction)
               /\ SubSeq(incoming, 1, Len(pre.incoming)) = pre.incoming
               /\ SubSeq(outgoing, 1, Len(pre.outgoing)) = pre.outgoing
        /\ AppendsToIncoming(LastAction) = 1 =>
                LastOf(incoming).kind \in {"Tsumo", "Chii", "Pon", "Daiminkan"}
        /\ AppendsToOutgoing(LastAction) = 1 =>
                LastOf(outgoing).kind \in
                    {"Tsumogiri", "TsumogiriRiichi", "Riichi", "Discard", "Kakan", "Ankan", "Dummy"}
        /\ Len(incoming) = CountIncoming(Len(r_actions))
        /\ Len(outgoing) = CountOutgoing(Len(r_actions))

\* a draw, a Daiminkan, a Kakan and a discard: two incoming, three outgoing entries
C23_Witness ==
    /\ r_pc = "loop" /\ Len(r_actions) = 4
    /\ r_actions[1].t = "DRAW"
    /\ r_actions[2].t = "N" /\ r_actions[2].m.kind = "Daiminkan"
    /\ r_actions[3].t = "N" /\ r_actions[3].m.kind = "Kakan"
    /\ r_actions[4].t = "DISCARD"
    /\ Len(incoming) = 2 /\ incoming[2].kind = "Daiminkan"
    /\ Len(outgoing) = 3 /\ outgoing[1] = Dummy /\ outgoing[2].kind = "Kakan"

\* the ordinal a call takes from another seat
CalledHai(meld) == IF meld.kind = "Daiminkan" THEN meld.hai ELSE meld.called

\* the ordinals of the red fives (conv_hai_to_tile with red enabled)
RedHais == {16, 52, 88}

\* the black five of the suit of a five's ordinal
BlackFiveOf(h) == (h \div 36 + 1) * 10 + 5

\* n tiles of a five, the red one at slot (counted from 0) and black elsewhere
RedAtSlot(n, slot, black) == [i \in 1..n |-> IF i = slot + 1 THEN to_red(black) ELSE black]

\* the entry the replay of the decoded meld has emitted
ReplayedEntry ==
    IF m_meld.val.kind \in {"Kakan", "Ankan"}
    THEN m_replay.val.outgoing[1]
    ELSE m_replay.val.incoming[1]

\* the decoded meld is a Pon, Kakan or Daiminkan of a rank-five tile and has
\* been replayed
FiveCallReplayed ==
    /\ m_pc = "replayed"
    /\ m_meld.val.kind \in {"Pon", "Kakan", "Daiminkan"}
    /\ is_number5(CalledHai(m_meld.val))

\* C24: replaying a rank-five Pon, Kakan or Daiminkan whose called copy is the
\* red one from the left, across or right seat emits an entry with the red tile
\* at slot 0 (Kamicha), slot 1 (Toimen) or the last slot (Shimocha: 2 of a
\* Pon / Kakan, 3 of a Daiminkan) and black fives at the other slots; when
\* neither the called copy nor the unused / added copy is red, the red tile is
\* at slot 1 (Pon / Kakan) or 2 (Daiminkan) for Shimocha and at the last slot
\* for every other direction, the other slots black.
C24_RedPlacement ==
    FiveCallReplayed =>
        LET meld == m_meld.val
            n == IF meld.kind = "Daiminkan" THEN 4 ELSE 3
            black == BlackFiveOf(CalledHai(meld))
        IN  /\ (CalledHai(meld) \in RedHais /\ meld.dir \in {"Kamicha", "Toimen", "Shimocha"}) =>
                /\ IsOk(m_replay)
                /\ ReplayedEntry.kind = meld.kind /\ ReplayedEntry.dir = meld.dir
                /\ ReplayedEntry.combination =
                     RedAtSlot(n, CASE meld.dir = "Kamicha" -> 0
                                    [] meld.dir = "Toimen" -> 1
                                    [] meld.dir = "Shimocha" -> n - 1, black)
            /\ (CalledHai(meld) \notin RedHais
                  /\ (meld.kind = "Daiminkan" \/ LeftOutTile(meld) \notin RedHais)) =>
                /\ IsOk(m_replay)
                /\ ReplayedEntry.kind = meld.kind /\ ReplayedEntry.dir = meld.dir
                /\ ReplayedEntry.combination =
                     RedAtSlot(n, IF meld.dir = "Shimocha" THEN n - 2 ELSE n - 1, black)
                /\ meld.kind = "Kakan" => ReplayedEntry.added = black

\* the Daiminkan of the red 5m from Shimocha has been replayed: red at slot 3
C24_Witness ==
    /\ FiveCallReplayed
    /\ m_meld.val = [kind |-> "Daiminkan", dir |-> "Shimocha", hai |-> 16]
    /\ m_replay = Ok([incoming |-> <<IncomingDaiminkan(<<15, 15, 15, 51>>, "Shimocha")>>,
                      outgoing |-> <<>>])

\* the ordinals of a decoded meld
HaisOfMeld(meld) ==
    CASE meld.kind \in {"Chii"} -> {meld.combination[1], meld.combination[2], meld.combination[3]}
      [] meld.kind \in {"Pon", "Kakan"} ->
            {meld.combination[1], meld.combination[2], meld.combination[3], LeftOutTile(meld)}
      [] OTHER -> {meld.hai}

\* the tiles of an emitted entry, as a sequence
TilesOfEntry(e) ==
    CASE e.kind = "Kakan" -> Append(e.combination, e.added)
      [] e.kind = "Ankan" -> <<e.tile>>
      [] OTHER -> e.combination

\* how many tiles of a sequence are red fives
RedCount(ts) == Cardinality({i \in 1..Len(ts) : is_red(ts[i])})

\* the decoded meld is a Pon, Kakan, Daiminkan or Ankan of ordinals 0..135 and
\* its replay has emitted an entry
SetReplayed ==
    /\ m_pc = "replayed" /\ IsOk(m_replay)
    /\ m_meld.val.kind \in {"Pon", "Kakan", "Daiminkan", "Ankan"}
    /\ HaisOfMeld(m_meld.val) \subseteq 0..135

Slice(xs, start, end) == SubSeq(xs, start + 1, end)

is_init(a) == a.t = "INIT"
is_go(a) == a.t = "GO"
is_un1(a) == a.t = "UN1"
is_agari(a) == a.t = "AGARI"
is_ryuukyoku(a) == a.t = "RYUUKYOKU"

\* the loop of extract_round_indices from index i with the locals indices, start
RECURSIVE extract_round_loop(_, _, _, _)
extract_round_loop(acts, i, indices, start) ==
    IF i >= Len(acts) THEN [indices |-> indices, start |-> start]
    ELSE IF is_init(acts[i + 1])
    THEN extract_round_loop(acts, i + 1,
                            IF IsOk(start) THEN Append(indices, <<start.val, i>>) ELSE indices,
                            Ok(i))
    ELSE extract_round_loop(acts, i + 1, indices, start)

\* extract_round_indices without the push of the last round after the loop
extract_round_indices_open_last(acts) == extract_round_loop(acts, 0, <<>>, None).indices

\* extract_round_indices
extract_round_indices(acts) ==
    LET r == extract_round_loop(acts, 0, <<>>, None)
    IN  IF IsOk(r.start) THEN Append(r.indices, <<r.start.val, Len(acts)>>) ELSE r.indices

\* find_final_result: the reverse scan, at 1-based position i
RECURSIVE find_final_result_from(_, _)
find_final_result_from(acts, i) ==
    IF i = 0 THEN Err("NotFoundFinalResult")
    ELSE IF is_agari(acts[i]) \/ is_ryuukyoku(acts[i])
    THEN IF IsOk(acts[i].owari) THEN Ok(acts[i].owari.val) ELSE Err("InvalidRoundFormat")
    ELSE find_final_result_from(acts, i - 1)

find_final_result(acts) == find_final_result_from(acts, Len(acts))

\* DAN_NAME, romanised
DAN_NAME ==
    <<"shinjin", "9kyuu", "8kyuu", "7kyuu", "6kyuu", "5kyuu", "4kyuu", "3kyuu", "2kyuu",
      "1kyuu", "shodan", "2dan", "3dan", "4dan", "5dan", "6dan", "7dan", "8dan", "9dan",
      "10dan", "tenhou">>

\* conv_dan: a TenhouRank is its discriminant
conv_dan(dan) == DAN_NAME[dan + 1]

\* conv_tiles: map conv_hai_to_tile(x, true), collecting up to the first Err
RECURSIVE conv_tiles(_)
conv_tiles(xs) ==
    IF xs = <<>> THEN Ok(<<>>)
    ELSE Then(conv_hai_to_tile(Head(xs), TRUE), LAMBDA h :
         Then(conv_tiles(Tail(xs)), LAMBDA rest : Ok(<<h>> \o rest)))

\* get_dora_vec
get_dora_vec(dora_hyouji, mid_actions) ==
    LET doras == SelectSeq(mid_actions, LAMBDA x : x.t = "DORA")
    IN  conv_tiles(<<dora_hyouji>> \o [i \in 1..Len(doras) |-> doras[i].hai])

\* get_ura_dora
get_ura_dora(end_action) ==
    CASE is_agari(end_action) -> conv_tiles(end_action.dora_hai_ura)
      [] is_ryuukyoku(end_action) -> Ok(<<>>)
      [] OTHER -> Panic("unexpected end action")

\* get_ura_dora_vec
RECURSIVE get_ura_dora_vec(_)
get_ura_dora_vec(end_actions) ==
    IF end_actions = <<>> THEN Ok(<<>>)
    ELSE Then(get_ura_dora(Head(end_actions)), LAMBDA ura_dora :
            IF ura_dora # <<>> THEN Ok(ura_dora) ELSE get_ura_dora_vec(Tail(end_actions)))

\* conv_rule: disp is the sequence of the five parts, "" for a part left out
conv_rule(settings) ==
    LET room_str == CASE settings.room = "Ippan" -> "pan" [] settings.room = "Joukyu" -> "jou"
                      [] settings.room = "Tokujou" -> "toku" [] settings.room = "Houou" -> "hou"
        hanchan_str == IF settings.hanchan THEN "nan" ELSE "ton"
        aka_str == IF settings.no_red THEN "" ELSE "aka"
        kuitan_str == IF settings.no_kuitan THEN "" ELSE "kui"
        soku_str == IF settings.soku THEN "soku" ELSE ""
    IN  Ok([disp |-> <<room_str, hanchan_str, kuitan_str, aka_str, soku_str>>,
            aka53 |-> ~settings.no_red, aka52 |-> ~settings.no_red, aka51 |-> ~settings.no_red])

\* x * 100 of an i32, exact where the product stays in the i32 range
Mul100(x) == IF I32Min \div 100 < x /\ x <= I32Max \div 100 THEN x * 100 ELSE Mul32(x, 100)

\* x * 100 over a vector of i32 points
Times100(xs) == [i \in 1..Len(xs) |-> Mul100(xs[i])]

\* conv_round_setting
conv_round_setting(acts) ==
    LET init == acts[1]
        end_actions == SelectSeq(acts, LAMBDA x : is_agari(x) \/ is_ryuukyoku(x))
    IN  IF ~is_init(init) THEN Panic("assertion failed: start_action.is_init()")
        ELSE IF end_actions = <<>> THEN Err("NotFoundTerminalAction")
        ELSE Then(get_dora_vec(init.seed.dora_hyouji, acts), LAMBDA dora :
             Then(get_ura_dora_vec(end_actions), LAMBDA ura_dora :
                Ok([kyoku |-> init.seed.kyoku, honba |-> init.seed.honba,
                    kyoutaku |-> init.seed.kyoutaku, points |-> Times100(init.ten),
                    dora |-> dora, ura_dora |-> ura_dora])))

\* conv_extra_ryuukyoku_reason: same name, Ryuukyoku for None
conv_extra_ryuukyoku_reason(x) == IF IsOk(x) THEN x.val ELSE "Ryuukyoku"

\* conv_delta_points_ryuukyoku
conv_delta_points_ryuukyoku(v) ==
    IF \E i \in 1..Len(v.delta_points) : v.delta_points[i] # 0
    THEN Times100(v.delta_points) ELSE <<>>

\* conv_round_result_from_ryuukyoku
conv_round_result_from_ryuukyoku(v) ==
    LET shown == <<IsOk(v.hai0), IsOk(v.hai1), IsOk(v.hai2), IsOk(v.hai3)>>
        reason == IF conv_extra_ryuukyoku_reason(v.reason) = "Ryuukyoku"
                  THEN CASE shown = <<TRUE, TRUE, TRUE, TRUE>> -> "TenpaiEverybody"
                         [] shown = <<FALSE, FALSE, FALSE, FALSE>> -> "TenpaiNobody"
                         [] OTHER -> "Ryuukyoku"
                  ELSE conv_extra_ryuukyoku_reason(v.reason)
    IN  Ok([kind |-> "Ryuukyoku", reason |-> reason,
            delta_points |-> conv_delta_points_ryuukyoku(v)])

\* conv_agari_vec: map conv_agari, collecting up to the first Err (a panic unwinds)
RECURSIVE conv_agari_vec(_, _)
conv_agari_vec(vs, oya) ==
    IF vs = <<>> THEN Ok(<<>>)
    ELSE Then(conv_agari(Head(vs), oya), LAMBDA a :
         Then(conv_agari_vec(Tail(vs), oya), LAMBDA rest : Ok(<<a>> \o rest)))

\* conv_round_result_from_agari
conv_round_result_from_agari(vs, oya) ==
    Then(conv_agari_vec(vs, oya), LAMBDA agari_vec : Ok([kind |-> "Agari", agari_vec |-> agari_vec]))

\* conv_round_result
conv_round_result(acts) ==
    LET init_action == acts[1]
        ryuukyoku_actions == SelectSeq(acts, is_ryuukyoku)
        agari_actions == SelectSeq(acts, is_agari)
    IN  IF Len(ryuukyoku_actions) = 1 THEN conv_round_result_from_ryuukyoku(ryuukyoku_actions[1])
        ELSE IF agari_actions # <<>> THEN conv_round_result_from_agari(agari_actions, init_action.oya)
        ELSE Err("InvalidRoundFormat")

\* get_initial_hand_order without the keys of the red fives
get_initial_hand_order_by_code(t) == Tile_to_u8(t) * 10

\* get_initial_hand_order
get_initial_hand_order(t) ==
    CASE Tile_to_u8(t) = 51 -> 151 [] Tile_to_u8(t) = 52 -> 251 [] Tile_to_u8(t) = 53 -> 351
      [] OTHER -> Tile_to_u8(t) * 10

\* sort_by_key(get_initial_hand_order), a stable sort: insertion after the equal keys
RECURSIVE insert_by_hand_order(_, _)
insert_by_hand_order(sorted, t) ==
    IF sorted = <<>> THEN <<t>>
    ELSE IF get_initial_hand_order(Head(sorted)) <= get_initial_hand_order(t)
    THEN <<Head(sorted)>> \o insert_by_hand_order(Tail(sorted), t)
    ELSE <<t>> \o sorted

RECURSIVE sort_by_hand_order(_)
sort_by_hand_order(xs) ==
    IF xs = <<>> THEN <<>>
    ELSE insert_by_hand_order(sort_by_hand_order(SubSeq(xs, 1, Len(xs) - 1)), xs[Len(xs)])

\* is_valid_player_action with the seat left unread
is_valid_player_action_any_seat(action, target_player) ==
    action.t \in {"DRAW", "DISCARD", "REACH1", "N"}

\* is_valid_player_action
is_valid_player_action(action, target_player) ==
    /\ action.t \in {"DRAW", "DISCARD", "REACH1", "N"}
    /\ action.who = target_player

\* conv_round_players: the actions of the round filtered for 0-based seat i
player_actions(acts, i) == SelectSeq(acts, LAMBDA x : is_valid_player_action(x, i))

\* conv_round_players: the loop over init_action.hai from 0-based seat i
RECURSIVE conv_round_players_from(_, _)
conv_round_players_from(acts, i) ==
    IF i >= Len(acts[1].hai) THEN Ok(<<>>)
    ELSE Then(conv_tiles(acts[1].hai[i + 1]), LAMBDA hand :
         Then(replay_actions(player_actions(acts, i)), LAMBDA streams :
         Then(conv_round_players_from(acts, i + 1), LAMBDA rest :
            Ok(<<[hand |-> sort_by_hand_order(hand), incoming |-> streams.incoming,
                  outgoing |-> streams.outgoing]>> \o rest))))

conv_round_players(acts) == conv_round_players_from(acts, 0)

\* conv_round: settings, then players, then result
conv_round(acts) ==
    Then(conv_round_setting(acts), LAMBDA settings :
    Then(conv_round_players(acts), LAMBDA players :
    Then(conv_round_result(acts), LAMBDA res :
        Ok([settings |-> settings, players |-> players, result |-> res]))))

\* conv_rounds
RECURSIVE conv_rounds(_, _)
conv_rounds(acts, indices) ==
    IF indices = <<>> THEN Ok(<<>>)
    ELSE Then(conv_round(Slice(acts, Head(indices)[1], Head(indices)[2])), LAMBDA round :
         Then(conv_rounds(acts, Tail(indices)), LAMBDA rest : Ok(<<round>> \o rest)))

Connection(what, log, who, step) == [what |-> what, log |-> log, who |-> who, step |-> step]

\* the scan of one range of conv_connections, with the step counter
RECURSIVE connections_scan(_, _, _)
connections_scan(acts, log, step) ==
    IF acts = <<>> THEN <<>>
    ELSE LET a == Head(acts)
         IN  CASE a.t = "BYE" -> <<Connection(0, log, a.who, step)>> \o connections_scan(Tail(acts), log, step)
               [] a.t = "UN2" -> <<Connection(1, log, a.who, step)>> \o connections_scan(Tail(acts), log, step)
               [] a.t \in {"N", "DRAW", "DISCARD"} -> connections_scan(Tail(acts), log, step + 1)
               [] OTHER -> connections_scan(Tail(acts), log, step)

\* conv_connections: before the first INIT (log -1, step 0: only BYE and UN2 are
\* looked at there), then round by round
RECURSIVE connections_rounds(_, _, _)
connections_rounds(acts, indices, log_index) ==
    IF indices = <<>> THEN <<>>
    ELSE connections_scan(Slice(acts, Head(indices)[1], Head(indices)[2]), log_index, 0)
         \o connections_rounds(acts, Tail(indices), log_index + 1)

\* conv_connections with the rounds numbered from 1
conv_connections_rounds_from_1(acts, indices) ==
    Ok(connections_scan(SelectSeq(Slice(acts, 0, indices[1][1]), LAMBDA a : a.t \in {"BYE", "UN2"}), -1, 0)
       \o connections_rounds(acts, indices, 1))

conv_connections(acts, indices) ==
    Ok(connections_scan(SelectSeq(Slice(acts, 0, indices[1][1]), LAMBDA a : a.t \in {"BYE", "UN2"}), -1, 0)
       \o connections_rounds(acts, indices, 0))

\* Iterator::find, with the error of a missing element
FindOr(xs, Test(_), e) ==
    LET ys == SelectSeq(xs, Test) IN IF ys = <<>> THEN Err(e) ELSE Ok(ys[1])

\* conv_to_tenhou_json past the GO and UN1 lookups
conv_to_tenhou_json_with(acts, action_go, action_un1) ==
    LET round_indices == extract_round_indices(acts)
    IN  IF round_indices = <<>> THEN Err("NotFoundRound")
        ELSE Then(find_final_result(acts), LAMBDA final :
             Then(conv_rounds(acts, round_indices), LAMBDA rounds :
             Then(conv_connections(acts, round_indices), LAMBDA connections :
             Then(conv_rule(action_go.settings), LAMBDA rule :
                Ok([ver |-> "2.3", reference |-> "", rounds |-> rounds,
                    connections |-> connections, ratingc |-> "PF4", rule |-> rule,
                    lobby |-> action_go.lobby,
                    dan |-> [i \in 1..Len(action_un1.dan) |-> conv_dan(action_un1.dan[i])],
                    rate |-> action_un1.rate, sx |-> action_un1.sx,
                    final_points |-> Times100(final[1]), final_results |-> final[2],
                    names |-> action_un1.names])))))

\* conv_to_tenhou_json
conv_to_tenhou_json(acts) ==
    Then(FindOr(acts, is_go, "NotFoundActionGO"), LAMBDA action_go :
    Then(FindOr(acts, is_un1, "NotFoundActionUN1"), LAMBDA action_un1 :
        conv_to_tenhou_json_with(acts, action_go, action_un1)))

(***************************************************************************)
(* Spec: the decoder (mjlog conv_mjloggm) pushes one action per tag, in    *)
(* any order the file holds them; then conv_to_tenhou_json runs once.      *)
(***************************************************************************)
MaxLog == 5

GoActions ==
    {[t |-> "GO", lobby |-> 0,
      settings |-> [room |-> "Houou", hanchan |-> TRUE, no_red |-> FALSE,
                    no_kuitan |-> FALSE, soku |-> FALSE]]}

Un1Actions ==
    {[t |-> "UN1", names |-> <<"A", "B", "C", "D">>, dan |-> <<16, 0, 20, 10>>,
      rate |-> <<2100, 1500, 2300, 1800>>, sx |-> <<"M", "F", "M", "C">>]}

\* one round-init: seat 0 holds a black 5m, the red 5m and a 6m
InitActions ==
    {[t |-> "INIT", seed |-> [kyoku |-> 0, honba |-> 0, kyoutaku |-> 0, dora_hyouji |-> 40],
      ten |-> <<250, 250, 250, 250>>, oya |-> 0,
      hai |-> << <<20, 17, 16>>, <<>>, <<>>, <<>> >>]}

Owari == Ok(<< <<350, 250, 250, 150>>, <<40, 5, -15, -30>> >>)

\* win actions: one with a yaku list, one with neither yaku nor yakuman, both final
LogAgariActions ==
    {[t |-> "AGARI", who |-> 0, from_who |-> 1, pao_who |-> None, fu |-> 30, yaku |-> y,
      yakuman |-> <<>>, delta_points |-> <<10, -10, 0, 0>>, dora_hai_ura |-> <<>>,
      owari |-> Owari] : y \in {<< <<"Riichi", 1>> >>, <<>>}}

\* a draw action that is not the last round's
RyuukyokuActions ==
    {[t |-> "RYUUKYOKU", delta_points |-> <<0, 0, 0, 0>>, hai0 |-> None, hai1 |-> None,
      hai2 |-> None, hai3 |-> None, reason |-> None, owari |-> None]}

\* the calls of the log: a Pon of 5m, red called, source direction self;
\* a Daiminkan of 5m from Shimocha, red called
LogMeldFields == {PonField(12, 1, 0), KanField(16, 1)}

\* the melds the decoder gives for the fields
LogMelds == {conv_meld_from_u16(f).val : f \in {g \in LogMeldFields : IsOk(conv_meld_from_u16(g))}}

Init ==
    /\ actions = <<>> /\ result = None /\ pc = "decode"
    /\ ReplayIdle /\ ScoreIdle /\ TileIdle /\ MeldIdle /\ TextIdle

Push(a) ==
    /\ Len(actions) < MaxLog
    /\ actions' = Append(actions, a)
    /\ UNCHANGED <<result, pc, replayVars, scoreVars, tileVars, meldVars, textVars>>

PushGO == pc = "decode" /\ \E a \in GoActions : Push(a)

PushUN1 == pc = "decode" /\ \E a \in Un1Actions : Push(a)

PushINIT == pc = "decode" /\ \E a \in InitActions : Push(a)

PushDRAW == pc = "decode" /\ Push([t |-> "DRAW", who |-> 0, hai |-> 16])

PushDISCARD == pc = "decode" /\ Push([t |-> "DISCARD", who |-> 0, hai |-> 16])

PushN ==
    /\ pc = "decode"
    /\ \E meld \in LogMelds : Push([t |-> "N", who |-> 0, m |-> meld])

PushAGARI == pc = "decode" /\ \E a \in LogAgariActions : Push(a)

PushRYUUKYOKU == pc = "decode" /\ \E a \in RyuukyokuActions : Push(a)

PushBYE == pc = "decode" /\ Push([t |-> "BYE", who |-> 1])

\* conv_to_tenhou_json on the decoded log
Convert ==
    /\ pc = "decode"
    /\ result' = conv_to_tenhou_json(actions)
    /\ pc' = "done"
    /\ UNCHANGED <<actions, replayVars, scoreVars, tileVars, meldVars, textVars>>

Next ==
    \/ PushGO \/ PushUN1 \/ PushINIT \/ PushDRAW \/ PushDISCARD \/ PushN
    \/ PushAGARI \/ PushRYUUKYOKU \/ PushBYE \/ Convert

Spec == Init /\ [][Next]_vars

(***************************************************************************)
(* Properties of the whole-match conversion.                               *)
(***************************************************************************)

\* C1: conv_to_tenhou_json ends in Ok with a match record or in Err with a ConvError;
\* no panic is hit, whatever log the decoder produced.
C1_NeverPanics == pc = "done" => result.kind \in {"Ok", "Err"}

\* the 0-based positions of the round-inits of the log, in log order
InitPositions == SelectSeq([i \in 1..Len(actions) |-> i - 1], LAMBDA i : is_init(actions[i + 1]))

\* the segmentation of the claim: from each round-init to the next, the last to the end
RefRanges ==
    LET ps == InitPositions
    IN  [k \in 1..Len(ps) |-> <<ps[k], IF k < Len(ps) THEN ps[k + 1] ELSE Len(actions)>>]

\* C2 (segmentation): a log with n round-inits segments into n ranges in log order,
\* the i-th from the i-th round-init to the (i+1)-th, the last to the end of the log;
\* consecutive ranges are adjacent; every range starts at a round-init and holds no
\* other.
C2_Ranges ==
    LET ix == extract_round_indices(actions)
    IN  /\ ix = RefRanges
        /\ \A k \in 1..Len(ix) :
              /\ ix[k][1] < ix[k][2] /\ ix[k][2] <= Len(actions)
              /\ is_init(actions[ix[k][1] + 1])
              /\ \A i \in (ix[k][1] + 1)..(ix[k][2] - 1) : ~is_init(actions[i + 1])
              /\ k < Len(ix) => ix[k][2] = ix[k + 1][1]
        /\ Len(ix) > 0 => ix[Len(ix)][2] = Len(actions)

\* C2 as stated: the segmentation above, and a log with no round-init fails with
\* NotFoundRound.
C2_AsStated ==
    /\ C2_Ranges
    /\ (pc = "done" /\ InitPositions = <<>>) => result = Err("NotFoundRound")

\* C2 amended: the segmentation above; a log with no round-init yields no range and
\* its conversion fails: with NotFoundActionGO when it has no GO, else with
\* NotFoundActionUN1 when it has no UN1, else with NotFoundRound.
C2_Segmentation ==
    /\ C2_Ranges
    /\ (pc = "done" /\ InitPositions = <<>>) =>
          /\ extract_round_indices(actions) = <<>>
          /\ result = IF ~\E i \in 1..Len(actions) : is_go(actions[i]) THEN Err("NotFoundActionGO")
                      ELSE IF ~\E i \in 1..Len(actions) : is_un1(actions[i]) THEN Err("NotFoundActionUN1")
                      ELSE Err("NotFoundRound")

\* a log of three round-inits followed by a draw was segmented into three ranges,
\* the last of them reaching the end of the log, and converted
C2_Witness ==
    /\ pc = "done" /\ Len(actions) = 5
    /\ InitPositions = <<1, 2, 3>>
    /\ extract_round_indices(actions) = << <<1, 2>>, <<2, 3>>, <<3, 5>> >>

\* the actions of round k, and how many of them are draws and wins
RoundActions(k) == Slice(actions, RefRanges[k][1], RefRanges[k][2])
DrawCount(k) == Len(SelectSeq(RoundActions(k), is_ryuukyoku))
WinCount(k) == Len(SelectSeq(RoundActions(k), is_agari))

\* C14 as stated: a round's result is a Draw exactly when its actions hold one
\* draw action and no win action, a Win with one record per win action exactly
\* when they hold one or more win actions and no draw action; with any other
\* combination the conversion of the match does not succeed
C14_AsStated ==
    pc = "done" =>
        \A k \in 1..Len(RefRanges) :
            /\ ~((DrawCount(k) = 1 /\ WinCount(k) = 0) \/ (WinCount(k) >= 1 /\ DrawCount(k) = 0))
                  => ~IsOk(result)
            /\ IsOk(result) =>
                  /\ (result.val.rounds[k].result.kind = "Ryuukyoku") <=> (DrawCount(k) = 1 /\ WinCount(k) = 0)
                  /\ (result.val.rounds[k].result.kind = "Agari") <=> (WinCount(k) >= 1 /\ DrawCount(k) = 0)
                  /\ (result.val.rounds[k].result.kind = "Agari")
                        => Len(result.val.rounds[k].result.agari_vec) = WinCount(k)

\* the positions of the win/draw actions that carry a final-standing payload
PayloadPositions ==
    {i \in 1..Len(actions) : (is_agari(actions[i]) \/ is_ryuukyoku(actions[i])) /\ IsOk(actions[i].owari)}

\* C15 as stated: find_final_result returns the payload of the last win/draw
\* action that carries one, skipping later win/draw actions that carry none,
\* and fails with NotFoundFinalResult when no win/draw action carries one
C15_AsStated ==
    pc = "done" =>
        find_final_result(actions) =
            IF PayloadPositions = {} THEN Err("NotFoundFinalResult")
            ELSE Ok(actions[CHOOSE i \in PayloadPositions : \A j \in PayloadPositions : j <= i].owari.val)

\* C16 as stated: conv_to_tenhou_json succeeds only for logs with exactly one
\* GO action and exactly one UN1 action; with none of either it fails with
\* NotFoundActionGO / NotFoundActionUN1
C16_AsStated ==
    pc = "done" =>
        /\ IsOk(result) => (Len(SelectSeq(actions, is_go)) = 1 /\ Len(SelectSeq(actions, is_un1)) = 1)
        /\ Len(SelectSeq(actions, is_go)) = 0 => result = Err("NotFoundActionGO")
        /\ (Len(SelectSeq(actions, is_go)) > 0 /\ Len(SelectSeq(actions, is_un1)) = 0)
              => result = Err("NotFoundActionUN1")

(***************************************************************************)
(* SpecConn: the decoder pushes the actions of a log, then the round        *)
(* ranges are taken and conv_connections runs on them, as in                *)
(* conv_to_tenhou_json. Only the tag and the seat of an action are read.    *)
(***************************************************************************)
MaxConn == 4

ConnInit ==
    /\ actions = <<>> /\ result = None /\ pc = "decode"
    /\ ReplayIdle /\ ScoreIdle /\ TileIdle /\ MeldIdle /\ TextIdle

ConnPush(a) ==
    /\ Len(actions) < MaxConn
    /\ actions' = Append(actions, a)
    /\ UNCHANGED <<result, pc, replayVars, scoreVars, tileVars, meldVars, textVars>>

\* a round-init
ConnINIT == pc = "decode" /\ ConnPush([t |-> "INIT"])

\* the actions that advance the step counter
ConnStep == pc = "decode" /\ \E tag \in {"DRAW", "DISCARD", "N"} : ConnPush([t |-> tag, who |-> 0])

\* the actions conv_connections passes over
ConnOther == pc = "decode" /\ \E tag \in {"REACH1", "REACH2", "DORA", "AGARI", "RYUUKYOKU"} : ConnPush([t |-> tag])

\* a seat leaves
ConnBYE == pc = "decode" /\ \E who \in {1, 3} : ConnPush([t |-> "BYE", who |-> who])

\* a seat reconnects
ConnUN2 == pc = "decode" /\ ConnPush([t |-> "UN2", who |-> 1])

\* conv_to_tenhou_json from the round ranges to the connections
ConnConvert ==
    /\ pc = "decode"
    /\ result' = (IF extract_round_indices(actions) = <<>> THEN Err("NotFoundRound")
                  ELSE conv_connections(actions, extract_round_indices(actions)))
    /\ pc' = "done"
    /\ UNCHANGED <<actions, replayVars, scoreVars, tileVars, meldVars, textVars>>

ConnNext == ConnINIT \/ ConnStep \/ ConnOther \/ ConnBYE \/ ConnUN2 \/ ConnConvert

SpecConn == ConnInit /\ [][ConnNext]_vars

\* the 1-based positions of the seat-left / reconnect actions, in log order
ConnectionPositions ==
    SelectSeq([i \in 1..Len(actions) |-> i], LAMBDA i : actions[i].t \in {"BYE", "UN2"})

\* the 1-based position of the last round-init at or before position p, 0 if none
RECURSIVE LastInitUpTo(_)
LastInitUpTo(p) ==
    IF p = 0 THEN 0 ELSE IF actions[p].t = "INIT" THEN p ELSE LastInitUpTo(p - 1)

\* the round index of position p: the round-inits up to p, less one
RoundIndexAt(p) == Cardinality({q \in 1..p : actions[q].t = "INIT"}) - 1

\* the draw, discard and call actions between the round-init of p's round and p
StepAt(p) ==
    IF LastInitUpTo(p) = 0 THEN 0
    ELSE Cardinality({q \in LastInitUpTo(p)..(p - 1) : actions[q].t \in {"DRAW", "DISCARD", "N"}})

MaxRound == 3

\* the orders the three tiles of a dealt hand come in
Perms3 == {<<1, 2, 3>>, <<1, 3, 2>>, <<2, 1, 3>>, <<2, 3, 1>>, <<3, 1, 2>>, <<3, 2, 1>>}
ApplyPerm(p, xs) == [i \in 1..3 |-> xs[p[i]]]

\* the round-inits: seat 0 holds 5m, red 5m, 6m; seat 1 holds 6p, red 5p, chun;
\* seat 2 holds red 5s, 5s, 6s; seat 3 holds red 5p, 4m, 5p; each in any order
PlayersInitActions ==
    {[t |-> "INIT", seed |-> [kyoku |-> 0, honba |-> 0, kyoutaku |-> 0, dora_hyouji |-> 40],
      ten |-> <<250, 250, 250, 250>>, oya |-> 0,
      hai |-> <<ApplyPerm(p, <<17, 16, 20>>), ApplyPerm(p, <<56, 52, 135>>),
                ApplyPerm(p, <<88, 89, 92>>), ApplyPerm(p, <<52, 12, 53>>)>>] : p \in Perms3}

\* the seats whose actions the round holds
PlayersSeats == {0, 2}

\* tags of the round that are no seat's draw, discard, riichi declaration or call
PlayersOtherActions ==
    {[t |-> "REACH2", who |-> 0], [t |-> "DORA", hai |-> 16], [t |-> "AGARI", who |-> 0],
     [t |-> "RYUUKYOKU"], [t |-> "BYE", who |-> 0]}

PlayersInit ==
    /\ actions \in {<<a>> : a \in PlayersInitActions} /\ result = None /\ pc = "decode"
    /\ ReplayIdle /\ ScoreIdle /\ TileIdle /\ MeldIdle /\ TextIdle

PlayersPush(a) ==
    /\ Len(actions) < 1 + MaxRound
    /\ actions' = Append(actions, a)
    /\ UNCHANGED <<result, pc, replayVars, scoreVars, tileVars, meldVars, textVars>>

PlayersDRAW == pc = "decode" /\ \E who \in PlayersSeats : PlayersPush([t |-> "DRAW", who |-> who, hai |-> 16])

PlayersDISCARD == pc = "decode" /\ \E who \in PlayersSeats : PlayersPush([t |-> "DISCARD", who |-> who, hai |-> 16])

PlayersREACH1 == pc = "decode" /\ \E who \in PlayersSeats : PlayersPush([t |-> "REACH1", who |-> who])

\* a Daiminkan of east from Kamicha
\* the meld the decoder gives for a Daiminkan of east from Kamicha
PlayersMeld == conv_meld_from_u16(KanField(108, 3)).val

PlayersN ==
    /\ pc = "decode"
    /\ \E who \in PlayersSeats : PlayersPush([t |-> "N", who |-> who, m |-> PlayersMeld])

PlayersOther == pc = "decode" /\ \E a \in PlayersOtherActions : PlayersPush(a)

\* conv_round_players on the slice
PlayersConvert ==
    /\ pc = "decode"
    /\ result' = conv_round_players(actions)
    /\ pc' = "done"
    /\ UNCHANGED <<actions, replayVars, scoreVars, tileVars, meldVars, textVars>>

PlayersNext ==
    \/ PlayersDRAW \/ PlayersDISCARD \/ PlayersREACH1 \/ PlayersN \/ PlayersOther
    \/ PlayersConvert

SpecPlayers == PlayersInit /\ [][PlayersNext]_vars

\* the hand order of the claim: by the black code, a red five right after the
\* black five of its suit
HandOrderLeq(a, b) ==
    \/ to_black(a) < to_black(b)
    \/ to_black(a) = to_black(b) /\ (is_red(a) => is_red(b))

\* how many times tile t occurs in xs
Occurrences(xs, t) == Cardinality({i \in 1..Len(xs) : xs[i] = t})

\* C26: for every hand of the round-init, the starting hand of the converted
\* RoundPlayer is a permutation of the converted tiles of that hand, in
\* non-decreasing order under the order that puts each red five (51/52/53)
\* strictly after its suit's black five (15/25/35) and strictly before its
\* suit's six (16/26/36), the other tiles by their two-digit code.
C26_HandSorted ==
    (pc = "done" /\ IsOk(result)) =>
        /\ Len(result.val) = Len(actions[1].hai)
        /\ \A s \in 1..Len(result.val) :
            LET hand == result.val[s].hand
                tiles == conv_tiles(actions[1].hai[s]).val
            IN  /\ Len(hand) = Len(tiles)
                /\ \A t \in {hand[i] : i \in 1..Len(hand)} \cup {tiles[i] : i \in 1..Len(tiles)} :
                        Occurrences(hand, t) = Occurrences(tiles, t)
                /\ \A i \in 1..Len(hand) : \A j \in i..Len(hand) : HandOrderLeq(hand[i], hand[j])
                /\ \A i \in 1..Len(hand) : \A j \in 1..Len(hand) :
                        /\ (is_red(hand[i]) /\ hand[j] = to_black(hand[i])) => j < i
                        /\ (is_red(hand[i]) /\ hand[j] = to_black(hand[i]) + 1) => i < j

\* the hand 6m, red 5m, 5m was dealt to seat 0 and came out as 5m, red 5m, 6m;
\* seat 1's 6p, red 5p, chun as red 5p, 6p, chun
C26_Witness ==
    /\ pc = "done" /\ IsOk(result)
    /\ actions[1].hai[1] = <<20, 16, 17>>
    /\ result.val[1].hand = <<15, 51, 16>>
    /\ result.val[2].hand = <<52, 26, 47>>

\* the draw, discard, riichi-declared and call actions of seat i among the
\* first k actions of the round, in log order
RECURSIVE SeatSubsequence(_, _)
SeatSubsequence(k, i) ==
    IF k = 0 THEN <<>>
    ELSE IF actions[k].t \in {"DRAW", "DISCARD", "REACH1", "N"} /\ actions[k].who = i
    THEN Append(SeatSubsequence(k - 1, i), actions[k])
    ELSE SeatSubsequence(k - 1, i)

\* C30: for every seat i in 0..3 the list conv_round_players hands to
\* replay_actions is the subsequence, in log order, of the round's draw,
\* discard, riichi-declared and call actions of seat i; no other action
\* reaches the fold, whose branch for unexpected action kinds is not taken,
\* and the seat's streams are the replay of that subsequence.
C30_SeatActions ==
    pc = "done" =>
        /\ result.kind \in {"Ok", "Err"}
        /\ \A i \in 0..3 :
            LET handed == player_actions(actions, i)
                sub == SeatSubsequence(Len(actions), i)
                replayed == replay_actions(sub)
            IN  /\ handed = sub
                /\ \A j \in 1..Len(handed) :
                    /\ handed[j].t \in {"DRAW", "DISCARD", "REACH1", "N"}
                    /\ handed[j].who = i
                    /\ replay_step(ReplayLocals0, handed[j]) # Panic("unexpected")
                /\ IsOk(result) =>
                    /\ result.val[i + 1].incoming = replayed.val.incoming
                    /\ result.val[i + 1].outgoing = replayed.val.outgoing

\* seat 0 draws, seat 2 draws, seat 0 discards the drawn tile: seat 0 gets its
\* draw and a Tsumogiri, seat 2 its draw only
C30_Witness ==
    /\ pc = "done" /\ IsOk(result)
    /\ Len(actions) = 4
    /\ actions[2] = [t |-> "DRAW", who |-> 0, hai |-> 16]
    /\ actions[3] = [t |-> "DRAW", who |-> 2, hai |-> 16]
    /\ actions[4] = [t |-> "DISCARD", who |-> 0, hai |-> 16]
    /\ player_actions(actions, 0) = <<actions[2], actions[4]>>
    /\ result.val[1].incoming = <<Tsumo(51)>> /\ result.val[1].outgoing = <<Tsumogiri>>
    /\ result.val[3].incoming = <<Tsumo(51)>> /\ result.val[3].outgoing = <<>>
    /\ result.val[2].incoming = <<>>

(***************************************************************************)
(* SpecRule: a match opened with or without red fives; the decoder pushes   *)
(* the actions of its rounds, then conv_to_tenhou_json runs once.           *)
(***************************************************************************)
MaxRule == 4

\* the table-open actions: red fives in play, or not (no_red)
RuleGoActions ==
    {[t |-> "GO", lobby |-> 0,
      settings |-> [room |-> "Houou", hanchan |-> TRUE, no_red |-> nr,
                    no_kuitan |-> FALSE, soku |-> FALSE]] : nr \in BOOLEAN}

\* a round-init: seat 0 holds the ordinals 16, 52 and 88, the indicator is 52
RuleInitAction ==
    [t |-> "INIT", seed |-> [kyoku |-> 0, honba |-> 0, kyoutaku |-> 0, dora_hyouji |-> 52],
     ten |-> <<250, 250, 250, 250>>, oya |-> 0,
     hai |-> << <<16, 52, 88>>, <<>>, <<>>, <<>> >>]

\* a final win with the ordinal 88 as ura-dora indicator
RuleAgariAction ==
    [t |-> "AGARI", who |-> 0, from_who |-> 1, pao_who |-> None, fu |-> 30,
     yaku |-> << <<"Riichi", 1>> >>, yakuman |-> <<>>, delta_points |-> <<10, -10, 0, 0>>,
     dora_hai_ura |-> <<88>>, owari |-> Owari]

RuleInit ==
    /\ actions \in {<<go, un1>> : go \in RuleGoActions, un1 \in Un1Actions}
    /\ result = None /\ pc = "decode"
    /\ ReplayIdle /\ ScoreIdle /\ TileIdle /\ MeldIdle /\ TextIdle

RulePush(a) ==
    /\ Len(actions) < 2 + MaxRule
    /\ actions' = Append(actions, a)
    /\ UNCHANGED <<result, pc, replayVars, scoreVars, tileVars, meldVars, textVars>>

RuleINIT == pc = "decode" /\ RulePush(RuleInitAction)

RuleDRAW == pc = "decode" /\ RulePush([t |-> "DRAW", who |-> 0, hai |-> 16])

RuleDISCARD == pc = "decode" /\ RulePush([t |-> "DISCARD", who |-> 0, hai |-> 52])

RuleDORA == pc = "decode" /\ RulePush([t |-> "DORA", hai |-> 16])

RuleAGARI == pc = "decode" /\ RulePush(RuleAgariAction)

RuleConvert ==
    /\ pc = "decode"
    /\ result' = conv_to_tenhou_json(actions)
    /\ pc' = "done"
    /\ UNCHANGED <<actions, replayVars, scoreVars, tileVars, meldVars, textVars>>

RuleNext == RuleINIT \/ RuleDRAW \/ RuleDISCARD \/ RuleDORA \/ RuleAGARI \/ RuleConvert

SpecRule == RuleInit /\ [][RuleNext]_vars

\* the tiles an entry of the incoming or outgoing stream holds
StreamTiles(e) ==
    CASE e.kind \in {"Tsumo", "Discard", "Riichi"} -> <<e.tile>>
      [] e.kind \in {"Tsumogiri", "TsumogiriRiichi", "Dummy"} -> <<>>
      [] OTHER -> TilesOfEntry(e)

\* no red five among the tiles of a sequence of tiles / of stream entries
NoRedTile(ts) == \A i \in 1..Len(ts) : ~is_red(ts[i])
NoRedEntry(es) == \A i \in 1..Len(es) : NoRedTile(StreamTiles(es[i]))

\* the converted match holds no red-five code in any round
NoRedInMatch(json) ==
    \A k \in 1..Len(json.rounds) :
        /\ NoRedTile(json.rounds[k].settings.dora)
        /\ NoRedTile(json.rounds[k].settings.ura_dora)
        /\ \A s \in 1..Len(json.rounds[k].players) :
            /\ NoRedTile(json.rounds[k].players[s].hand)
            /\ NoRedEntry(json.rounds[k].players[s].incoming)
            /\ NoRedEntry(json.rounds[k].players[s].outgoing)

\* C27 as stated: when the table-open action sets no_red, the rule's aka51,
\* aka52 and aka53 flags are all false and no tile of the converted match
\* (starting hands, incoming and outgoing streams, dora and ura-dora lists) has
\* a red-five code 51, 52 or 53
C27_AsStated ==
    (pc = "done" /\ IsOk(result) /\ actions[1].settings.no_red) =>
        /\ ~result.val.rule.aka51 /\ ~result.val.rule.aka52 /\ ~result.val.rule.aka53
        /\ NoRedInMatch(result.val)

(***************************************************************************)
(* Text call/discard codec: tenhou-json exporter.rs export_incoming_tile / *)
(* export_outgoing_tile and parser.rs conv_incoming_tile /                 *)
(* conv_outgoing_tile.  A JSON value is a record with its type in json: a  *)
(* number (i64), a string (a sequence of one-character strings) or any    *)
(* other value.                                                            *)
(***************************************************************************)

JsonNum(n) == [json |-> "num", n |-> n]
JsonStr(chars) == [json |-> "str", s |-> chars]
JsonNull == [json |-> "null"]

\* format!("{}", t.to_u8())
fmt_tile(t) == FmtNat(Tile_to_u8(t))

\* export_tile
export_tile(t) == JsonNum(Tile_to_u8(t))

\* export_incoming_tile
export_incoming_tile(in) ==
    CASE in.kind = "Tsumo" -> Ok(export_tile(in.tile))
      [] in.kind = "Chii" ->
            Ok(JsonStr(<<"c">> \o fmt_tile(in.combination[1]) \o fmt_tile(in.combination[2]) \o fmt_tile(in.combination[3])))
      [] in.kind = "Pon" ->
            CASE in.dir = "Kamicha" ->
                    Ok(JsonStr(<<"p">> \o fmt_tile(in.combination[1]) \o fmt_tile(in.combination[2]) \o fmt_tile(in.combination[3])))
              [] in.dir = "Toimen" ->
                    Ok(JsonStr(fmt_tile(in.combination[1]) \o <<"p">> \o fmt_tile(in.combination[2]) \o fmt_tile(in.combination[3])))
              [] in.dir = "Shimocha" ->
                    Ok(JsonStr(fmt_tile(in.combination[1]) \o fmt_tile(in.combination[2]) \o <<"p">> \o fmt_tile(in.combination[3])))
              [] OTHER -> Panic("undefined")
      [] in.kind = "Daiminkan" ->
            CASE in.dir = "Kamicha" ->
                    Ok(JsonStr(<<"m">> \o fmt_tile(in.combination[1]) \o fmt_tile(in.combination[2])
                                       \o fmt_tile(in.combination[3]) \o fmt_tile(in.combination[4])))
              [] in.dir = "Toimen" ->
                    Ok(JsonStr(fmt_tile(in.combination[1]) \o <<"m">> \o fmt_tile(in.combination[2])
                                       \o fmt_tile(in.combination[3]) \o fmt_tile(in.combination[4])))
              [] in.dir = "Shimocha" ->
                    Ok(JsonStr(fmt_tile(in.combination[1]) \o fmt_tile(in.combination[2])
                                       \o fmt_tile(in.combination[3]) \o <<"m">> \o fmt_tile(in.combination[4])))
              [] OTHER -> Panic("undefined")

\* export_outgoing_tile with the added tile of a Kakan always written first
export_outgoing_tile_added_first(out) ==
    CASE out.kind = "Discard" -> Ok(export_tile(out.tile))
      [] out.kind = "Riichi" -> Ok(JsonStr(<<"r">> \o fmt_tile(out.tile)))
      [] out.kind = "Tsumogiri" -> Ok(JsonNum(60))
      [] out.kind = "TsumogiriRiichi" -> Ok(JsonStr(<<"r", "6", "0">>))
      [] out.kind = "Ankan" ->
            Ok(JsonStr(fmt_tile(to_black(out.tile)) \o fmt_tile(to_black(out.tile)) \o fmt_tile(to_black(out.tile))
                       \o <<"a">> \o fmt_tile(out.tile)))
      [] out.kind = "Kakan" ->
            CASE out.dir = "Kamicha" ->
                    Ok(JsonStr(<<"k">> \o fmt_tile(out.added) \o fmt_tile(out.combination[1])
                                       \o fmt_tile(out.combination[2]) \o fmt_tile(out.combination[3])))
              [] out.dir = "Toimen" ->
                    Ok(JsonStr(fmt_tile(out.added) \o <<"k">> \o fmt_tile(out.combination[1])
                                       \o fmt_tile(out.combination[2]) \o fmt_tile(out.combination[3])))
              [] out.dir = "Shimocha" ->
                    Ok(JsonStr(fmt_tile(out.added) \o fmt_tile(out.combination[1]) \o <<"k">>
                                       \o fmt_tile(out.combination[2]) \o fmt_tile(out.combination[3])))
              [] OTHER -> Panic("undefined")
      [] out.kind = "Dummy" -> Ok(JsonNum(0))

\* export_outgoing_tile
export_outgoing_tile(out) ==
    CASE out.kind = "Discard" -> Ok(export_tile(out.tile))
      [] out.kind = "Riichi" -> Ok(JsonStr(<<"r">> \o fmt_tile(out.tile)))
      [] out.kind = "Tsumogiri" -> Ok(JsonNum(60))
      [] out.kind = "TsumogiriRiichi" -> Ok(JsonStr(<<"r", "6", "0">>))
      [] out.kind = "Ankan" ->
            Ok(JsonStr(fmt_tile(to_black(out.tile)) \o fmt_tile(to_black(out.tile)) \o fmt_tile(to_black(out.tile))
                       \o <<"a">> \o fmt_tile(out.tile)))
      [] out.kind = "Kakan" ->
            CASE out.dir = "Kamicha" ->
                    Ok(JsonStr(<<"k">> \o fmt_tile(out.added) \o fmt_tile(out.combination[1])
                                       \o fmt_tile(out.combination[2]) \o fmt_tile(out.combination[3])))
              [] out.dir = "Toimen" ->
                    Ok(JsonStr(fmt_tile(out.combination[1]) \o <<"k">> \o fmt_tile(out.added)
                                       \o fmt_tile(out.combination[2]) \o fmt_tile(out.combination[3])))
              [] out.dir = "Shimocha" ->
                    Ok(JsonStr(fmt_tile(out.combination[1]) \o fmt_tile(out.combination[2]) \o <<"k">>
                                       \o fmt_tile(out.added) \o fmt_tile(out.combination[3])))
              [] OTHER -> Panic("undefined")
      [] out.kind = "Dummy" -> Ok(JsonNum(0))

\* char::is_ascii_alphabetic / is_ascii_alphanumeric on one-character strings
AsciiLetters ==
    {"a", "b", "c", "d", "e", "f", "g", "h", "i", "j", "k", "l", "m",
     "n", "o", "p", "q", "r", "s", "t", "u", "v", "w", "x", "y", "z",
     "A", "B", "C", "D", "E", "F", "G", "H", "I", "J", "K", "L", "M",
     "N", "O", "P", "Q", "R", "S", "T", "U", "V", "W", "X", "Y", "Z"}
is_ascii_alphabetic(ch) == ch \in AsciiLetters
is_ascii_alphanumeric(ch) == is_ascii_alphabetic(ch) \/ IsAsciiDigit(ch)

\* conv_u8: as_i64 cast to u8
conv_u8(v) == IF v.json = "num" THEN Ok(v.n % 256) ELSE Err("TypeMismatch")

\* conv_str
conv_str(v) == IF v.json = "str" THEN Ok(v.s) ELSE Err("TypeMismatch")

\* tenhou-json parser.rs conv_tile_from_u8
json_conv_tile_from_u8(x) ==
    IF IsOk(Tile_from_u8(x)) THEN Tile_from_u8(x) ELSE Err("InvalidTileNumber")

\* conv_tile_from_ascii, on two ASCII digits
conv_tile_from_ascii(x0, x1) == json_conv_tile_from_u8(DigitValue(x0) * 10 + DigitValue(x1))

\* conv_tile
conv_tile(v) == Then(conv_u8(v), LAMBDA x : json_conv_tile_from_u8(x))

\* numbers.chunks(2).map(|c| conv_tile_from_ascii(c[0], c[1])).collect(): the
\* first failure ends the collection; c[1] on a last chunk of one digit panics
RECURSIVE chunks_to_tiles(_)
chunks_to_tiles(numbers) ==
    IF Len(numbers) = 0 THEN Ok(<<>>)
    ELSE IF Len(numbers) = 1 THEN Panic("index out of bounds")
    ELSE Then(conv_tile_from_ascii(numbers[1], numbers[2]), LAMBDA t :
         Then(chunks_to_tiles(SubSeq(numbers, 3, Len(numbers))), LAMBDA ts :
            Ok(<<t>> \o ts)))

\* the 0-based index of the first alphabetic character
first_letter_pos(xs) == (CHOOSE i \in 1..Len(xs) :
                            /\ is_ascii_alphabetic(xs[i])
                            /\ \A j \in 1..(i - 1) : ~is_ascii_alphabetic(xs[j])) - 1

\* xs without the character at 0-based index pos
without_index(xs, pos) == SubSeq(xs, 1, pos) \o SubSeq(xs, pos + 2, Len(xs))

\* parse_decorated_tile after the letter was found
parse_decorated_tile_at(xs, letter_pos) ==
    IF letter_pos % 2 # 0 THEN Err("InvalidMeld")
    ELSE IF ~(\A i \in 1..Len(xs) : i = letter_pos + 1 \/ IsAsciiDigit(xs[i])) THEN Err("InvalidMeld")
    ELSE Then(chunks_to_tiles(without_index(xs, letter_pos)), LAMBDA tiles :
            Ok([tiles |-> tiles, letter |-> xs[letter_pos + 1], letter_pos |-> letter_pos]))

\* parse_decorated_tile
parse_decorated_tile(s) ==
    IF ~(\A i \in 1..Len(s) : is_ascii_alphanumeric(s[i])) THEN Err("InvalidMeld")
    ELSE IF ~(\E i \in 1..Len(s) : is_ascii_alphabetic(s[i])) THEN Err("InvalidMeld")
    ELSE parse_decorated_tile_at(s, first_letter_pos(s))

\* tiles[0], .., tiles[n-1] of a Vec: indexing past the end panics
first_tiles(tiles, n, F(_)) == IF Len(tiles) < n THEN Panic("index out of bounds") ELSE F(tiles)

\* conv_incoming_tile, the match on the letter
conv_incoming_decorated(d) ==
    CASE d.letter = "c" ->
            IF d.letter_pos # 0 THEN Err("InvalidLetterPosition")
            ELSE first_tiles(d.tiles, 3, LAMBDA ts : Ok(IncomingChii(<<ts[1], ts[2], ts[3]>>)))
      [] d.letter = "p" ->
            IF d.letter_pos \notin {0, 2, 4} THEN Err("InvalidLetterPosition")
            ELSE first_tiles(d.tiles, 3, LAMBDA ts :
                    Ok(IncomingPon(CASE d.letter_pos = 0 -> "Kamicha" [] d.letter_pos = 2 -> "Toimen" [] OTHER -> "Shimocha",
                                   <<ts[1], ts[2], ts[3]>>)))
      [] d.letter = "m" ->
            IF d.letter_pos \notin {0, 2, 6} THEN Err("InvalidLetterPosition")
            ELSE first_tiles(d.tiles, 4, LAMBDA ts :
                    Ok(IncomingDaiminkan(<<ts[1], ts[2], ts[3], ts[4]>>,
                                         CASE d.letter_pos = 0 -> "Kamicha" [] d.letter_pos = 2 -> "Toimen" [] OTHER -> "Shimocha")))
      [] OTHER -> Err("InvalidMeld")

\* conv_incoming_tile
conv_incoming_tile(v) ==
    IF v.json = "num" THEN Then(conv_tile(v), LAMBDA t : Ok(Tsumo(t)))
    ELSE Then(conv_str(v), LAMBDA s :
         Then(parse_decorated_tile(s), LAMBDA d : conv_incoming_decorated(d)))

\* conv_outgoing_tile, the tests on the letter
conv_outgoing_decorated(d) ==
    IF d.letter = "r" THEN
        IF Len(d.tiles) # 1 THEN Err("InvalidRiichi") ELSE Ok(Riichi(d.tiles[1]))
    ELSE IF d.letter = "a" THEN
        IF Len(d.tiles) # 4 THEN Err("InvalidAnkan") ELSE Ok(OutgoingAnkan(d.tiles[4]))
    ELSE IF d.letter = "k" THEN
        IF Len(d.tiles) # 4 THEN Err("InvalidKakan")
        ELSE IF d.letter_pos \notin {0, 2, 4} THEN Err("InvalidLetterPosition")
        ELSE Ok(OutgoingKakan(CASE d.letter_pos = 0 -> "Kamicha" [] d.letter_pos = 2 -> "Toimen" [] OTHER -> "Shimocha",
                              without_index(d.tiles, d.letter_pos \div 2),
                              d.tiles[(d.letter_pos \div 2) + 1]))
    ELSE Err("InvalidDecoration")

\* conv_outgoing_tile, a number
conv_outgoing_number(x) ==
    CASE x = 60 -> Ok(Tsumogiri)
      [] x = 0 -> Ok(Dummy)
      [] OTHER -> Then(json_conv_tile_from_u8(x), LAMBDA t : Ok(Discard(t)))

\* conv_outgoing_tile
conv_outgoing_tile(v) ==
    IF v.json = "num" THEN Then(conv_u8(v), LAMBDA x : conv_outgoing_number(x))
    ELSE Then(conv_str(v), LAMBDA s :
         IF s = <<"r", "6", "0">> THEN Ok(TsumogiriRiichi)
         ELSE Then(parse_decorated_tile(s), LAMBDA d : conv_outgoing_decorated(d)))

(***************************************************************************)
(* SpecText: a value is exported and the token decoded, or a token read    *)
(* from a document is decoded.                                             *)
(***************************************************************************)

MaxDigits == 8

\* every valid Tile, and the tiles the combinations are built from
TextTileCodes == {x \in 0..255 : is_valid_tile(x)}
TextCombinationTiles == {11, 15, 19, 25, 47, 51, 53}
TextDirections == {"SelfSeat", "Kamicha", "Toimen", "Shimocha"}

TextIncomingValues ==
    {Tsumo(t) : t \in TextTileCodes}
    \cup {IncomingChii(<<a, b, c>>) : a \in TextCombinationTiles, b \in TextCombinationTiles, c \in TextCombinationTiles}
    \cup {IncomingPon(d, <<a, b, c>>) : d \in TextDirections, a \in {15, 51}, b \in TextCombinationTiles, c \in TextCombinationTiles}
    \cup {IncomingDaiminkan(<<a, b, c, e>>, d) : d \in TextDirections, a \in {15, 51}, b \in {15, 47}, c \in TextCombinationTiles, e \in TextCombinationTiles}

TextOutgoingValues ==
    {Discard(t) : t \in TextTileCodes}
    \cup {Riichi(t) : t \in TextTileCodes}
    \cup {OutgoingAnkan(t) : t \in TextTileCodes}
    \cup {Tsumogiri, TsumogiriRiichi, Dummy}
    \cup {OutgoingKakan(d, <<a, b, c>>, e) : d \in TextDirections, a \in {15, 51}, b \in {15, 47}, c \in TextCombinationTiles, e \in TextCombinationTiles}

\* digit strings a token is made of, and the letters put into them
Ones(n) == [i \in 1..n |-> "1"]
TextDigitStrings ==
    {Ones(n) : n \in 0..MaxDigits}
    \cup {<<"1", "2", "3">>, <<"1", "0", "1", "1", "1", "1">>, <<"1", "1", "1", "1", "1", "0">>,
          <<"1", "5", "1", "5", "1", "5", "5", "1">>}
TextLetters == {"c", "p", "m", "r", "a", "k", "x"}
InsertAt(ds, pos, l) == SubSeq(ds, 1, pos) \o <<l>> \o SubSeq(ds, pos + 1, Len(ds))

TextTokens ==
    UNION {{JsonStr(InsertAt(ds, pos, l)) : pos \in 0..Len(ds), l \in TextLetters} : ds \in TextDigitStrings}
    \cup {JsonStr(ds) : ds \in TextDigitStrings}
    \cup {JsonStr(<<"r", "6", "0">>), JsonStr(<<"1", "1", " ", "p">>), JsonStr(<<"p", "1", "1", "c">>), JsonNull}
    \cup {JsonNum(n) : n \in {0, 11, 40, 51, 60, 255, 267, -1}}

TextInit ==
    /\ \/ /\ x_pc = "value"
          /\ x_in \in ([side : {"incoming"}, val : TextIncomingValues] \cup [side : {"outgoing"}, val : TextOutgoingValues])
          /\ x_token = None
       \/ /\ x_pc = "received"
          /\ x_in \in [side : {"incoming", "outgoing"}]
          /\ x_token \in {Ok(t) : t \in TextTokens}
    /\ x_out = None
    /\ ConvIdle /\ ReplayIdle /\ ScoreIdle /\ TileIdle /\ MeldIdle

\* export_incoming_tile
TextExportIncoming ==
    /\ x_pc = "value" /\ x_in.side = "incoming"
    /\ x_token' = export_incoming_tile(x_in.val)
    /\ x_pc' = "exported"
    /\ UNCHANGED <<x_in, x_out, convVars, replayVars, scoreVars, tileVars, meldVars>>

\* export_outgoing_tile
TextExportOutgoing ==
    /\ x_pc = "value" /\ x_in.side = "outgoing"
    /\ x_token' = export_outgoing_tile(x_in.val)
    /\ x_pc' = "exported"
    /\ UNCHANGED <<x_in, x_out, convVars, replayVars, scoreVars, tileVars, meldVars>>

\* conv_incoming_tile
TextDecodeIncoming ==
    /\ x_pc \in {"exported", "received"} /\ x_in.side = "incoming" /\ IsOk(x_token)
    /\ x_out' = conv_incoming_tile(x_token.val)
    /\ x_pc' = IF x_pc = "exported" THEN "round" ELSE "decoded"
    /\ UNCHANGED <<x_in, x_token, convVars, replayVars, scoreVars, tileVars, meldVars>>

\* conv_outgoing_tile
TextDecodeOutgoing ==
    /\ x_pc \in {"exported", "received"} /\ x_in.side = "outgoing" /\ IsOk(x_token)
    /\ x_out' = conv_outgoing_tile(x_token.val)
    /\ x_pc' = IF x_pc = "exported" THEN "round" ELSE "decoded"
    /\ UNCHANGED <<x_in, x_token, convVars, replayVars, scoreVars, tileVars, meldVars>>

TextNext == TextExportIncoming \/ TextExportOutgoing \/ TextDecodeIncoming \/ TextDecodeOutgoing

SpecText == TextInit /\ [][TextNext]_vars

(***************************************************************************)
(* Properties of the text call/discard codec.                              *)
(***************************************************************************)

\* C11: for every IncomingTile and OutgoingTile built from valid tiles, with
\* source direction left, across or right where it has one, the exporter
\* returns a token and decoding that token returns a value equal to the
\* original (the Kakan added tile and the direction included); the letter of
\* a Pon or Daiminkan from the right sits two characters before the last.
C11_TextRoundTrip ==
    /\ (x_pc = "exported" /\ ("dir" \notin DOMAIN x_in.val \/ x_in.val.dir # "SelfSeat")) => IsOk(x_token)
    /\ (x_pc = "exported" /\ IsOk(x_token) /\ x_in.val.kind \in {"Pon", "Daiminkan"} /\ x_in.val.dir = "Shimocha")
          => first_letter_pos(x_token.val.s) = (Len(x_token.val.s) - 1) - 2
    /\ x_pc = "round" => x_out = Ok(x_in.val)

\* a Kakan from across whose added tile differs from every combination tile
\* has gone through the exporter and the decoder
C11_Witness ==
    /\ x_pc = "round"
    /\ x_in.val = OutgoingKakan("Toimen", <<51, 15, 15>>, 25)
    /\ x_token = Ok(JsonStr(<<"5", "1", "k", "2", "5", "1", "5", "1", "5">>))
    /\ x_out = Ok(x_in.val)

\* a decorated string: made of ASCII letters and digits, with exactly one letter
IsDecorated(v) ==
    /\ v.json = "str"
    /\ \A i \in 1..Len(v.s) : is_ascii_alphanumeric(v.s[i])
    /\ Cardinality({i \in 1..Len(v.s) : is_ascii_alphabetic(v.s[i])}) = 1

\* C12: decoding a decorated string whose single letter sits at an odd
\* character offset fails with InvalidLetterPosition, and decoding one whose
\* letter sits at an even offset returns normally, a value or an error value
C12_AsStated ==
    (x_pc = "decoded" /\ IsDecorated(x_token.val)) =>
        IF first_letter_pos(x_token.val.s) % 2 # 0
        THEN x_out = Err("InvalidLetterPosition")
        ELSE x_out.kind \in {"Ok", "Err"}

====
